---- MODULE Spec2Model ----
(***************************************************************************)
(* State-machine model of the quest bot (src/bot.py): the ledger store     *)
(* (users, tasks, submissions, withdrawals, banned_users), the process-    *)
(* local cooldown map, the task boards, and the suspended handlers         *)
(* (task_cb, the review views, withdraw_cb).  A handler is a sequence of   *)
(* steps; a step runs from one await of the code to the next, so that the  *)
(* interleavings of the model are those of the single-threaded event loop. *)
(* Every statement runs on a pooled connection outside any transaction, so *)
(* each statement commits on its own.                                      *)
(***************************************************************************)
EXTENDS Integers, Sequences, FiniteSets, TLC

\* ------------------------------------------------------------------ bounds
\* Members that click buttons and write messages.
Users == {"u1", "u2"}
\* message.guild.owner: the identity a refreshed board is bound to, an administrator.
GuildOwner == "owner"
\* Number of task_cb invocations (quest-button clicks) in one run.
NIntake == 2
\* Number of !tasks board messages in one run.
NBoards == 2
\* Number of review views (selections of a submission in a review menu) in one run.
NReview == 2
\* Number of withdraw_cb invocations (clicks on Withdraw Points) in one run.
NWithdraw == 2
\* Number of tasks an admin adds in one run.
MaxTasks == 2
\* The instants (in seconds) at which the clock is read: both sides of the
\* cooldown window, 0 -> 1 and 1 -> 10 inside it, 0 -> 10 at its end.
Instants == {0, 1, 10}
\* The quests an admin adds: <<points, max_submissions>>.
TaskInputs == {<<1000, 1>>, <<200, 2>>}

\* --------------------------------------------------------- program constants
BUTTON_COOLDOWN == 10
\* rows[:10] of tasks_cmd and refresh_task_board
BoardCap == 10
\* LIMIT 25 of review_cmd
ReviewCap == 25
\* the minimum balance and the minimum amount of withdraw_cb
MinWithdraw == 1000

VARIABLES
    users,        \* table users: user_id -> points (a row per key of the function)
    tasks,        \* table tasks: id -> [points, max_submissions, archived]
    nextTid,      \* the SERIAL of tasks.id
    submissions,  \* table submissions: a set of rows
    nextSid,      \* the SERIAL of submissions.id
    withdrawals,  \* table withdrawals: a set of rows
    nextWid,      \* the SERIAL of withdrawals.id
    banned,       \* table banned_users
    last_click,   \* the dict last_click: (user, task id) -> time of the last passing click
    now,          \* datetime.utcnow(), in seconds
    boards,       \* the board messages: who the buttons answer to, and the buttons
    intake,       \* the task_cb invocations: position and locals
    deleted,      \* the messages deleted from the channel (a message is named after
                  \* the first task_cb it resumed)
    menu,         \* the submission ids offered by the select menus of review_cmd
    review,       \* the review views (PendingSelect.callback and its two buttons)
    profiles,     \* the users whose profile message shows the Withdraw Points button
    wd,           \* the withdraw_cb invocations: position and locals
    removing,     \* the tasks whose remove_task_button is between its two statements
    call,         \* a call of a pure helper: its arguments and, once returned, its result
    startup,      \* the start of the process: DATABASE_URL, db_pool, bot.ready_ran, the
                  \* position of on_ready, and the handlers run while db_pool is None
    history       \* per member, the history of the profile message: the count taken
                  \* by profile_cmd, and the TaskHistoryView once opened

vLedger == <<users, tasks, nextTid, submissions, nextSid, withdrawals, nextWid, banned>>
vIntake == <<last_click, now, boards, intake, deleted>>
vReview == <<menu, review>>
vWithdraw == <<profiles, wd>>
vars == <<vLedger, vIntake, vReview, vWithdraw, removing, call, history, startup>>

\* ------------------------------------------------------------------ strings
\* A message content is a sequence of characters.
ProofLink == <<"h", "t", "t", "p", ":", "a">>
ProofLinkSp == <<"h", "t", "t", "p", ":", "a", " ">>
Chatter == <<"h", "i">>
Amount1000 == <<"1", "0", "0", "0">>
Amount1500 == <<" ", "1", "5", "0", "0">>
Amount500 == <<"5", "0", "0">>
AmountNeg == <<"-", "5">>

\* str.startswith
StartsWith(s, p) == Len(s) >= Len(p) /\ SubSeq(s, 1, Len(p)) = p

RECURSIVE LStrip(_)
LStrip(s) == IF s # <<>> /\ Head(s) = " " THEN LStrip(Tail(s)) ELSE s

RECURSIVE RStrip(_)
RStrip(s) == IF s # <<>> /\ s[Len(s)] = " " THEN RStrip(SubSeq(s, 1, Len(s) - 1)) ELSE s

\* str.strip
Strip(s) == RStrip(LStrip(s))

\* check_link of task_cb, without the author and channel tests
check_link(c) == StartsWith(c, <<"h", "t", "t", "p">>)

Digits == {"0", "1", "2", "3", "4", "5", "6", "7", "8", "9"}

DigitVal(ch) == CASE ch = "0" -> 0 [] ch = "1" -> 1 [] ch = "2" -> 2 [] ch = "3" -> 3
                  [] ch = "4" -> 4 [] ch = "5" -> 5 [] ch = "6" -> 6 [] ch = "7" -> 7
                  [] ch = "8" -> 8 [] ch = "9" -> 9

\* The literal of int(s) without blanks and sign.
Unsigned(s) == LET t == Strip(s) IN IF t # <<>> /\ Head(t) \in {"+", "-"} THEN Tail(t) ELSE t

\* int(s) does not raise ValueError: blanks, a sign, then digits, single
\* underscores allowed between two digits.
IsIntLiteral(s) ==
    LET t == Unsigned(s)
    IN /\ t # <<>>
       /\ \A i \in 1..Len(t) :
            \/ t[i] \in Digits
            \/ t[i] = "_" /\ 1 < i /\ i < Len(t) /\ t[i - 1] \in Digits /\ t[i + 1] \in Digits

RECURSIVE DigitsVal(_)
DigitsVal(s) == IF s = <<>> THEN 0
                ELSE IF s[Len(s)] = "_" THEN DigitsVal(SubSeq(s, 1, Len(s) - 1))
                ELSE 10 * DigitsVal(SubSeq(s, 1, Len(s) - 1)) + DigitVal(s[Len(s)])

\* int(s), for s with IsIntLiteral(s)
IntOf(s) == IF Head(Strip(s)) = "-" THEN 0 - DigitsVal(Unsigned(s)) ELSE DigitsVal(Unsigned(s))

\* -------------------------------------------------------------------- store
\* SELECT COUNT(*) FROM submissions WHERE task_id=tid AND status!='rejected'
CountDone(tid) == Cardinality({s \in submissions : s.task_id = tid /\ s.status # "rejected"})

\* The rows of a render that does not cut the list: every non-archived task.
OpenRowsUncut == {t \in DOMAIN tasks : ~tasks[t].archived}

\* SELECT ... FROM tasks WHERE archived=0, cut to the first BoardCap rows (by id)
OpenRows == LET open == {t \in DOMAIN tasks : ~tasks[t].archived}
            IN {t \in open : Cardinality({o \in open : o < t}) < BoardCap}

\* The rows of OpenRows the render loop finds full: each is archived.
FullRows == {t \in OpenRows : CountDone(t) >= tasks[t].max_submissions}

\* UPDATE tasks SET archived=1 WHERE id IN ids
Archive(ids) == [t \in DOMAIN tasks |-> IF t \in ids THEN [tasks[t] EXCEPT !.archived = TRUE]
                                        ELSE tasks[t]]

\* The buttons of a rendered board: for every row that is not full, the task id
\* with the max_submissions the button's callback closes over.
Buttons == [t \in OpenRows \ FullRows |-> tasks[t].max_submissions]

\* INSERT INTO users (user_id, points) VALUES (u, 0) ON CONFLICT DO NOTHING
ensure_user(u) == IF u \in DOMAIN users THEN users ELSE (u :> 0) @@ users

\* get_user_points
get_user_points(u) == IF u \in DOMAIN users THEN users[u] ELSE 0

\* MILESTONES
MILESTONES == <<500, 1000, 1500, 2000>>

\* A milestone filter that counts the old balance itself: old_pts <= m <= new_pts.
MilestonesFromOld(old_pts, new_pts, milestones) ==
    SelectSeq(milestones, LAMBDA m : old_pts <= m /\ m <= new_pts)

\* next_milestones_reached: [m for m in milestones if old_pts < m <= new_pts]
next_milestones_reached(old_pts, new_pts, milestones) ==
    SelectSeq(milestones, LAMBDA m : old_pts < m /\ m <= new_pts)

\* A rank that needs more than the threshold: points > 2000, > 1500, ...
RankAboveThreshold(points) ==
    IF points > 2000 THEN "Master"
    ELSE IF points > 1500 THEN "Pro"
    ELSE IF points > 1000 THEN "Adventurer"
    ELSE IF points > 500 THEN "Explorer"
    ELSE "Newbie"

\* get_rank (the labels without their emoji)
get_rank(points) ==
    IF points >= 2000 THEN "Master"
    ELSE IF points >= 1500 THEN "Pro"
    ELSE IF points >= 1000 THEN "Adventurer"
    ELSE IF points >= 500 THEN "Explorer"
    ELSE "Newbie"

\* UPDATE users SET points = points + d WHERE user_id=u
AddPoints(u, d) == IF u \in DOMAIN users THEN [users EXCEPT ![u] = @ + d] ELSE users

\* An update of the status that leaves reviewed_at as it was.
SetStatusOnly(sid, st) ==
    {IF s.id = sid THEN [s EXCEPT !.status = st] ELSE s : s \in submissions}

\* UPDATE submissions SET status=st, reviewed_at=CURRENT_TIMESTAMP WHERE id=sid
SetStatus(sid, st) ==
    {IF s.id = sid THEN [s EXCEPT !.status = st, !.reviewed_at = "CURRENT_TIMESTAMP"] ELSE s :
        s \in submissions}

\* No helper is being called.
NoCall == [fn |-> "none", args |-> <<>>, out |-> <<>>, returned |-> FALSE]

\* A process whose on_ready has run init_db to its end: the pool is there.
Started == [DATABASE_URL |-> "set", db_pool |-> "pool", ready_ran |-> TRUE, pc |-> "ready",
            create_pool_failed |-> FALSE, handled |-> {}]

\* TaskHistoryView: submissions_per_page
submissions_per_page == 10

\* A profile message without history button, and no TaskHistoryView.
NoHistory == [total_completed_tasks |-> 0, open |-> FALSE, page |-> 0, rows |-> <<>>]

\* TaskHistoryView.total_pages
total_pages(total_submissions) ==
    (total_submissions + submissions_per_page - 1) \div submissions_per_page

\* ORDER BY id DESC
Desc(ids) == [k \in 1..Cardinality(ids) |->
                 CHOOSE i \in ids : Cardinality({j \in ids : j > i}) = k - 1]

\* build_history_embed: the decided submissions of member, joined with their
\* task, newest first, LIMIT submissions_per_page OFFSET page * submissions_per_page.
build_history_embed(member, page) ==
    LET decided == {s.id : s \in {r \in submissions :
                        /\ r.user_id = member
                        /\ r.status \in {"approved", "rejected"}
                        /\ r.task_id \in DOMAIN tasks}}
        offset == page * submissions_per_page
        last == IF offset + submissions_per_page < Cardinality(decided)
                THEN offset + submissions_per_page ELSE Cardinality(decided)
    IN SubSeq(Desc(decided), offset + 1, last)

NoBoard == [author |-> "", buttons |-> <<>>, shown |-> FALSE]

IdleIntake == [pc |-> "idle", user |-> "", tid |-> 0, board |-> 0, max_subs |-> 0,
               now |-> 0, done_count |-> 0, msg |-> 0, proof |-> <<>>, slots_left |-> 0]

IdleReview == [pc |-> "idle", sid |-> 0, user_id |-> "", task_id |-> 0, task_points |-> 0]

IdleWithdraw == [pc |-> "idle", user |-> "", current_points |-> 0, bank_name |-> <<>>,
                 account_number |-> <<>>, account_name |-> <<>>, points_to_withdraw |-> 0,
                 withdrawal_id |-> 0]

\* A task_cb that has returned: its locals are gone; what is kept is the outcome,
\* who clicked what, and the time the cooldown gate read.
Ended(fl, outcome) == [IdleIntake EXCEPT !.pc = outcome, !.user = fl.user, !.tid = fl.tid,
                                         !.now = fl.now]

\* A withdraw_cb that has returned: the outcome, the user, the amount and the row.
EndedWithdraw(fl, outcome) == [IdleWithdraw EXCEPT !.pc = outcome, !.user = fl.user,
                                   !.points_to_withdraw = fl.points_to_withdraw,
                                   !.withdrawal_id = fl.withdrawal_id]

\* -------------------------------------------------------------------- init
\* The state after init_db on an empty database.
Init ==
    /\ users = <<>>
    /\ tasks = <<>>
    /\ nextTid = 1
    /\ submissions = {}
    /\ nextSid = 1
    /\ withdrawals = {}
    /\ nextWid = 1
    /\ banned = {}
    /\ last_click = <<>>
    /\ now = 0
    /\ boards = [b \in 1..NBoards |-> NoBoard]
    /\ intake = [f \in 1..NIntake |-> IdleIntake]
    /\ deleted = {}
    /\ menu = {}
    /\ review = [v \in 1..NReview |-> IdleReview]
    /\ profiles = {}
    /\ wd = [w \in 1..NWithdraw |-> IdleWithdraw]
    /\ removing = {}
    /\ call = NoCall
    /\ history = [u \in Users |-> NoHistory]
    /\ startup = Started

\* ------------------------------------------------------------------- clock
\* Time passes.  Only the cooldown gate reads the clock, so the time that passes
\* while no task_cb is about to read it is part of the next tick.
Tick ==
    /\ \E f \in 1..NIntake : intake[f].pc = "is_banned"
    /\ now' \in {t \in Instants : t > now}
    /\ UNCHANGED <<vLedger, last_click, boards, intake, deleted, vReview, vWithdraw, removing, call, history, startup>>

\* ------------------------------------------------------------- admin: tasks
\* AddTaskModal.on_submit / addtask: INSERT INTO tasks.
AddTask(points, max_subs) ==
    /\ nextTid <= MaxTasks
    /\ tasks' = (nextTid :> [points |-> points, max_submissions |-> max_subs,
                             archived |-> FALSE]) @@ tasks
    /\ nextTid' = nextTid + 1
    /\ UNCHANGED <<users, submissions, nextSid, withdrawals, nextWid, banned, vIntake,
                   vReview, vWithdraw, removing, call, history, startup>>

\* BanUserModal.on_submit: INSERT INTO banned_users ... ON CONFLICT DO NOTHING.
BanUser(u) ==
    /\ banned' = banned \cup {u}
    /\ UNCHANGED <<users, tasks, nextTid, submissions, nextSid, withdrawals, nextWid, vIntake,
                   vReview, vWithdraw, removing, call, history, startup>>

\* ------------------------------------------------------------------- board
\* tasks_cmd: with no open task it sends a notice and ends; otherwise it sends the
\* board message b, archives every row it finds full, and shows the others.
tasks_cmd(b, u) ==
    /\ ~boards[b].shown
    /\ IF b = 1 THEN TRUE ELSE boards[b - 1].shown
    /\ {t \in DOMAIN tasks : ~tasks[t].archived} # {}
    /\ boards' = [boards EXCEPT ![b] = [author |-> u, buttons |-> Buttons, shown |-> TRUE]]
    /\ tasks' = Archive(FullRows)
    /\ UNCHANGED <<users, nextTid, submissions, nextSid, withdrawals, nextWid, banned,
                   last_click, now, intake, deleted, vReview, vWithdraw, removing, call, history, startup>>

\* refresh_task_board(message): the same loop; the rebuilt buttons answer to
\* message.interaction.user, which a message sent by ctx.send does not have,
\* so to message.guild.owner.  With no button left the view is removed.
RefreshedBoard(b) == [author |-> IF Buttons = <<>> THEN boards[b].author ELSE GuildOwner,
                      buttons |-> Buttons, shown |-> TRUE]

\* ------------------------------------------------------------------ intake
\* A click on the button of task tid of board b by user u: task_cb up to its first await.
TaskClick(f, b, u, tid) ==
    /\ intake[f].pc = "idle"
    /\ IF f = 1 THEN TRUE ELSE intake[f - 1].pc # "idle"
    /\ boards[b].shown
    /\ tid \in DOMAIN boards[b].buttons
    /\ intake' = [intake EXCEPT ![f] =
           IF u # boards[b].author
           THEN [IdleIntake EXCEPT !.pc = "denied_not_caller", !.user = u, !.tid = tid]
           ELSE [IdleIntake EXCEPT !.pc = "is_banned", !.user = u, !.tid = tid,
                                   !.board = b, !.max_subs = boards[b].buttons[tid]]]
    /\ UNCHANGED <<vLedger, last_click, now, boards, deleted, vReview, vWithdraw, removing, call, history, startup>>

\* A cooldown gate that compares with last_click and never records the click.
CooldownGateCheckOnly(f) ==
    LET fl == intake[f]
        key == <<fl.user, fl.tid>>
    IN /\ fl.pc = "is_banned"
       /\ intake' = [intake EXCEPT ![f] =
              IF fl.user \in banned THEN Ended(fl, "denied_banned")
              ELSE IF key \in DOMAIN last_click /\ now - last_click[key] < BUTTON_COOLDOWN
              THEN Ended([fl EXCEPT !.now = now], "denied_cooldown")
              ELSE [fl EXCEPT !.pc = "count", !.now = now]]
       /\ UNCHANGED <<vLedger, last_click, now, boards, deleted, vReview, vWithdraw, removing, call, history, startup>>

\* A gate that records the click in last_click before it looks at the ban.
CooldownGateRecordsFirst(f) ==
    LET fl == intake[f]
        key == <<fl.user, fl.tid>>
    IN /\ fl.pc = "is_banned"
       /\ IF fl.user \in banned
          THEN /\ intake' = [intake EXCEPT ![f] = Ended(fl, "denied_banned")]
               /\ last_click' = (key :> now) @@ last_click
          ELSE IF key \in DOMAIN last_click /\ now - last_click[key] < BUTTON_COOLDOWN
          THEN /\ intake' = [intake EXCEPT ![f] = Ended([fl EXCEPT !.now = now], "denied_cooldown")]
               /\ UNCHANGED last_click
          ELSE /\ intake' = [intake EXCEPT ![f].pc = "count", ![f].now = now]
               /\ last_click' = (key :> now) @@ last_click
       /\ UNCHANGED <<vLedger, now, boards, deleted, vReview, vWithdraw, removing, call, history, startup>>

\* is_banned returns; then, with no await in between, the cooldown gate.
CooldownGate(f) ==
    LET fl == intake[f]
        key == <<fl.user, fl.tid>>
    IN /\ fl.pc = "is_banned"
       /\ IF fl.user \in banned
          THEN /\ intake' = [intake EXCEPT ![f] = Ended(fl, "denied_banned")]
               /\ UNCHANGED last_click
          ELSE IF key \in DOMAIN last_click /\ now - last_click[key] < BUTTON_COOLDOWN
          THEN /\ intake' = [intake EXCEPT ![f] = Ended([fl EXCEPT !.now = now], "denied_cooldown")]
               /\ UNCHANGED last_click
          ELSE /\ intake' = [intake EXCEPT ![f].pc = "count", ![f].now = now]
               /\ last_click' = (key :> now) @@ last_click
       /\ UNCHANGED <<vLedger, now, boards, deleted, vReview, vWithdraw, removing, call, history, startup>>

\* A capacity check that denies only above max_subs: done_count > max_subs.
CapacityCheckAbove(f) ==
    LET fl == intake[f]
        done == CountDone(fl.tid)
    IN /\ fl.pc = "count"
       /\ intake' = [intake EXCEPT ![f].done_count = done,
                                   ![f].pc = IF done > fl.max_subs THEN "full_archive"
                                             ELSE "dup_check"]
       /\ UNCHANGED <<vLedger, last_click, now, boards, deleted, vReview, vWithdraw, removing, call, history, startup>>

\* The COUNT(*) returns: done_count >= max_subs denies.
CapacityCheck(f) ==
    LET fl == intake[f]
        done == CountDone(fl.tid)
    IN /\ fl.pc = "count"
       /\ intake' = [intake EXCEPT ![f].done_count = done,
                                   ![f].pc = IF done >= fl.max_subs THEN "full_archive"
                                             ELSE "dup_check"]
       /\ UNCHANGED <<vLedger, last_click, now, boards, deleted, vReview, vWithdraw, removing, call, history, startup>>

\* The full quest: UPDATE tasks SET archived=1 WHERE id=tid.
ArchiveFull(f) ==
    /\ intake[f].pc = "full_archive"
    /\ tasks' = Archive({intake[f].tid})
    /\ intake' = [intake EXCEPT ![f].pc = "full_refresh"]
    /\ UNCHANGED <<users, nextTid, submissions, nextSid, withdrawals, nextWid, banned,
                   last_click, now, boards, deleted, vReview, vWithdraw, removing, call, history, startup>>

\* refresh_task_board(board_msg), the last call of both ends of task_cb.
RefreshBoard(f) ==
    /\ intake[f].pc \in {"full_refresh", "refresh"}
    /\ boards' = [boards EXCEPT ![intake[f].board] = RefreshedBoard(intake[f].board)]
    /\ tasks' = Archive(FullRows)
    /\ intake' = [intake EXCEPT ![f] = Ended(intake[f], IF intake[f].pc = "refresh"
                                                          THEN "recorded" ELSE "denied_full")]
    /\ UNCHANGED <<users, nextTid, submissions, nextSid, withdrawals, nextWid, banned,
                   last_click, now, deleted, vReview, vWithdraw, removing, call, history, startup>>

\* A duplicate check that does not count a rejected row: ... AND status!='rejected'.
DuplicateCheckSkipsRejected(f) ==
    LET fl == intake[f]
        existing == {s \in submissions : s.user_id = fl.user /\ s.task_id = fl.tid
                                           /\ s.status # "rejected"}
    IN /\ fl.pc = "dup_check"
       /\ intake' = [intake EXCEPT ![f] = IF existing # {} THEN Ended(fl, "denied_duplicate")
                                            ELSE [fl EXCEPT !.pc = "awaiting_proof"]]
       /\ UNCHANGED <<vLedger, last_click, now, boards, deleted, vReview, vWithdraw, removing, call, history, startup>>

\* SELECT id, status FROM submissions WHERE user_id AND task_id returns; a row
\* denies, no row sends the instructions and registers the wait for the proof.
DuplicateCheck(f) ==
    LET fl == intake[f]
        existing == {s \in submissions : s.user_id = fl.user /\ s.task_id = fl.tid}
    IN /\ fl.pc = "dup_check"
       /\ intake' = [intake EXCEPT ![f] = IF existing # {} THEN Ended(fl, "denied_duplicate")
                                            ELSE [fl EXCEPT !.pc = "awaiting_proof"]]
       /\ UNCHANGED <<vLedger, last_click, now, boards, deleted, vReview, vWithdraw, removing, call, history, startup>>

\* bot.wait_for("message", check=check_link) of task_cb f takes a message of u.
TakesProof(f, u, c) == intake[f].pc = "awaiting_proof" /\ intake[f].user = u /\ check_link(c)

\* A timeout of the proof wait that records a submission with no proof.
ProofTimeoutRecords(f) ==
    /\ intake[f].pc = "awaiting_proof"
    /\ intake' = [intake EXCEPT ![f] = Ended(intake[f], "denied_timeout")]
    /\ submissions' = submissions \cup
           {[id |-> nextSid, user_id |-> intake[f].user, task_id |-> intake[f].tid,
             proof |-> <<>>, status |-> "pending", reviewed_at |-> "NULL"]}
    /\ nextSid' = nextSid + 1
    /\ UNCHANGED <<users, tasks, nextTid, withdrawals, nextWid, banned, last_click, now,
                   boards, deleted, vReview, vWithdraw, removing, call, history, startup>>

\* A proof wait without timeout: bot.wait_for("message", check=check_link).
ProofWaitsForever(f) ==
    /\ FALSE
    /\ UNCHANGED vars

\* asyncio.TimeoutError of the wait for the proof (timeout=180).
ProofTimeout(f) ==
    /\ intake[f].pc = "awaiting_proof"
    /\ intake' = [intake EXCEPT ![f] = Ended(intake[f], "denied_timeout")]
    /\ UNCHANGED <<vLedger, last_click, now, boards, deleted, vReview, vWithdraw, removing, call, history, startup>>

\* A delete whose NotFound is swallowed: the flow goes on with the proof.
DeleteProofMsgSwallows(f) ==
    /\ intake[f].pc = "delete_msg"
    /\ intake' = [intake EXCEPT ![f].pc = "ensure_user"]
    /\ deleted' = deleted \cup {intake[f].msg}
    /\ UNCHANGED <<vLedger, last_click, now, boards, vReview, vWithdraw, removing, call, history, startup>>

\* await msg.delete(): deleting a message that is already gone raises NotFound,
\* which the outer except turns into "An error occurred while collecting proof".
DeleteProofMsg(f) ==
    /\ intake[f].pc = "delete_msg"
    /\ IF intake[f].msg \in deleted
       THEN /\ intake' = [intake EXCEPT ![f] = Ended(intake[f], "denied_error")]
            /\ UNCHANGED deleted
       ELSE /\ intake' = [intake EXCEPT ![f].pc = "ensure_user"]
            /\ deleted' = deleted \cup {intake[f].msg}
    /\ UNCHANGED <<vLedger, last_click, now, boards, vReview, vWithdraw, removing, call, history, startup>>

\* A task_cb that goes to its INSERT without ensure_user.
EnsureUserSkipped(f) ==
    /\ intake[f].pc = "ensure_user"
    /\ intake' = [intake EXCEPT ![f].pc = "insert"]
    /\ UNCHANGED <<vLedger, last_click, now, boards, deleted, vReview, vWithdraw, removing, call, history, startup>>

\* ensure_user(interaction.user.id) returns.
EnsureUser(f) ==
    /\ intake[f].pc = "ensure_user"
    /\ users' = ensure_user(intake[f].user)
    /\ intake' = [intake EXCEPT ![f].pc = "insert"]
    /\ UNCHANGED <<tasks, nextTid, submissions, nextSid, withdrawals, nextWid, banned,
                   last_click, now, boards, deleted, vReview, vWithdraw, removing, call, history, startup>>

\* INSERT INTO submissions (user_id, task_id, proof): status and reviewed_at take
\* their defaults.  task_id REFERENCES tasks(id): with the task removed the
\* statement raises and task_cb ends there.
NewSubmission(fl) == [id |-> nextSid, user_id |-> fl.user, task_id |-> fl.tid,
                      proof |-> fl.proof, status |-> "pending", reviewed_at |-> "NULL"]

InsertSubmission(f) ==
    LET fl == intake[f]
    IN /\ fl.pc = "insert"
       /\ IF fl.tid \in DOMAIN tasks
          THEN /\ submissions' = submissions \cup {NewSubmission(fl)}
               /\ nextSid' = nextSid + 1
               /\ intake' = [intake EXCEPT ![f].pc = "refresh",
                                ![f].slots_left = fl.max_subs - (fl.done_count + 1)]
          ELSE /\ intake' = [intake EXCEPT ![f] = Ended(fl, "failed_insert")]
               /\ UNCHANGED <<submissions, nextSid>>
       /\ UNCHANGED <<users, tasks, nextTid, withdrawals, nextWid, banned, last_click, now,
                      boards, deleted, vReview, vWithdraw, removing, call, history, startup>>


\* ------------------------------------------------------------------ review
\* review_cmd: the pending submissions (LIMIT 25) become the options of a select menu.
review_cmd ==
    LET pending == {s.id : s \in {r \in submissions : r.status = "pending"
                                                       /\ r.task_id \in DOMAIN tasks}}
        options == {i \in pending : Cardinality({j \in pending : j < i}) < ReviewCap}
    IN /\ options # {}
       /\ menu' = menu \cup options
       /\ UNCHANGED <<vLedger, vIntake, review, vWithdraw, removing, call, history, startup>>

\* A select that opens a review view for any row it finds, whatever its status.
SelectOpensAnyStatus(v, sid) ==
    LET rows == {s \in submissions : s.id = sid /\ s.task_id \in DOMAIN tasks}
        row == CHOOSE s \in rows : TRUE
    IN /\ review[v].pc = "idle"
       /\ IF v = 1 THEN TRUE ELSE review[v - 1].pc # "idle"
       /\ sid \in menu
       /\ review' = [review EXCEPT ![v] =
              IF rows = {}
              THEN [IdleReview EXCEPT !.pc = "select_denied", !.sid = sid]
              ELSE [pc |-> "open", sid |-> sid, user_id |-> row.user_id,
                    task_id |-> row.task_id, task_points |-> tasks[row.task_id].points]]
       /\ UNCHANGED <<vLedger, vIntake, menu, vWithdraw, removing, call, history, startup>>

\* PendingSelect.callback: the submission is read with its task; it opens a
\* review view holding that row if the row is there and pending.
SelectForReview(v, sid) ==
    LET rows == {s \in submissions : s.id = sid /\ s.task_id \in DOMAIN tasks}
        row == CHOOSE s \in rows : TRUE
    IN /\ review[v].pc = "idle"
       /\ IF v = 1 THEN TRUE ELSE review[v - 1].pc # "idle"
       /\ sid \in menu
       /\ review' = [review EXCEPT ![v] =
              IF rows = {} \/ row.status # "pending"
              THEN [IdleReview EXCEPT !.pc = "select_denied", !.sid = sid]
              ELSE [pc |-> "open", sid |-> sid, user_id |-> row.user_id,
                    task_id |-> row.task_id, task_points |-> tasks[row.task_id].points]]
       /\ UNCHANGED <<vLedger, vIntake, menu, vWithdraw, removing, call, history, startup>>

\* approve_cb, first statement: UPDATE submissions SET status='approved' WHERE id=sid.
ApproveStatus(v) ==
    /\ review[v].pc = "open"
    /\ submissions' = SetStatus(review[v].sid, "approved")
    /\ review' = [review EXCEPT ![v].pc = "approve_credit"]
    /\ UNCHANGED <<users, tasks, nextTid, nextSid, withdrawals, nextWid, banned, vIntake,
                   menu, vWithdraw, removing, call, history, startup>>

\* A credit that writes the reward as the balance: UPDATE users SET points = $1.
ApproveCreditOverwrites(v) ==
    /\ review[v].pc = "approve_credit"
    /\ users' = IF review[v].user_id \in DOMAIN users
                THEN [users EXCEPT ![review[v].user_id] = review[v].task_points]
                ELSE users
    /\ review' = [review EXCEPT ![v].pc = "approved"]
    /\ UNCHANGED <<tasks, nextTid, submissions, nextSid, withdrawals, nextWid, banned,
                   vIntake, menu, vWithdraw, removing, call, history, startup>>

\* approve_cb, second statement: UPDATE users SET points = points + task_points.
ApproveCredit(v) ==
    /\ review[v].pc = "approve_credit"
    /\ users' = AddPoints(review[v].user_id, review[v].task_points)
    /\ review' = [review EXCEPT ![v].pc = "approved"]
    /\ UNCHANGED <<tasks, nextTid, submissions, nextSid, withdrawals, nextWid, banned,
                   vIntake, menu, vWithdraw, removing, call, history, startup>>

\* approve_cb, second statement: the store fails (the connection is lost) and
\* conn.execute raises; the first statement stays committed.
ApproveCreditFails(v) ==
    /\ review[v].pc = "approve_credit"
    /\ review' = [review EXCEPT ![v].pc = "approve_failed"]
    /\ UNCHANGED <<vLedger, vIntake, menu, vWithdraw, removing, call, history, startup>>

\* A rejection that takes the reward from the balance.
RejectTakesBack(v) ==
    /\ review[v].pc = "open"
    /\ submissions' = SetStatus(review[v].sid, "rejected")
    /\ users' = AddPoints(review[v].user_id, 0 - review[v].task_points)
    /\ review' = [review EXCEPT ![v].pc = "rejected"]
    /\ UNCHANGED <<tasks, nextTid, nextSid, withdrawals, nextWid, banned, vIntake,
                   menu, vWithdraw, removing, call, history, startup>>

\* reject_cb: UPDATE submissions SET status='rejected' WHERE id=sid.
Reject(v) ==
    /\ review[v].pc = "open"
    /\ submissions' = SetStatus(review[v].sid, "rejected")
    /\ review' = [review EXCEPT ![v].pc = "rejected"]
    /\ UNCHANGED <<users, tasks, nextTid, nextSid, withdrawals, nextWid, banned, vIntake,
                   menu, vWithdraw, removing, call, history, startup>>

\* ---------------------------------------------------------------- withdraw
\* profile_cmd by u for u: ensure_user, the count of decided submissions, and the
\* profile with the Withdraw Points button.
profile_cmd(u) ==
    /\ u \notin profiles
    /\ users' = ensure_user(u)
    /\ profiles' = profiles \cup {u}
    /\ history' = [history EXCEPT ![u] = [NoHistory EXCEPT !.total_completed_tasks =
           Cardinality({s \in submissions : s.user_id = u
                                            /\ s.status \in {"approved", "rejected"}})]]
    /\ UNCHANGED <<tasks, nextTid, submissions, nextSid, withdrawals, nextWid, banned,
                   vIntake, vReview, wd, removing, call, startup>>

\* A click on Withdraw Points by u: withdraw_cb up to its first await.
WithdrawClick(w, u) ==
    /\ wd[w].pc = "idle"
    /\ IF w = 1 THEN TRUE ELSE wd[w - 1].pc # "idle"
    /\ profiles # {}
    /\ wd' = [wd EXCEPT ![w] = [IdleWithdraw EXCEPT !.pc = "get_points", !.user = u]]
    /\ UNCHANGED <<vLedger, vIntake, vReview, profiles, removing, call, history, startup>>

\* A withdraw_cb without the eligibility check: the bank name is always asked for.
EligibilitySkipped(w) ==
    LET current_points == get_user_points(wd[w].user)
    IN /\ wd[w].pc = "get_points"
       /\ wd' = [wd EXCEPT ![w] =
              [wd[w] EXCEPT !.pc = "bank_name", !.current_points = current_points]]
       /\ UNCHANGED <<vLedger, vIntake, vReview, profiles, removing, call, history, startup>>

\* get_user_points returns: below the minimum the click is denied, otherwise
\* the bank name is asked for.
Eligibility(w) ==
    LET current_points == get_user_points(wd[w].user)
    IN /\ wd[w].pc = "get_points"
       /\ wd' = [wd EXCEPT ![w] =
              IF current_points < MinWithdraw THEN EndedWithdraw(wd[w], "denied_balance")
              ELSE [wd[w] EXCEPT !.pc = "bank_name", !.current_points = current_points]]
       /\ UNCHANGED <<vLedger, vIntake, vReview, profiles, removing, call, history, startup>>

\* The four waits of withdraw_cb.
Collecting == {"bank_name", "account_number", "account_name", "points"}

\* bot.wait_for("message", check=check) of withdraw_cb w takes a message of u.
TakesField(w, u) == wd[w].pc \in Collecting /\ wd[w].user = u

\* The validation of details['points'] and what follows it.
Validated(fl, c) ==
    IF ~IsIntLiteral(c) THEN EndedWithdraw(fl, "invalid_number")
    ELSE IF IntOf(c) <= 0 THEN EndedWithdraw(fl, "invalid_number")
    ELSE IF IntOf(c) < MinWithdraw THEN EndedWithdraw(fl, "below_minimum")
    ELSE IF IntOf(c) > fl.current_points THEN EndedWithdraw(fl, "over_balance")
    ELSE [fl EXCEPT !.pc = "debit", !.points_to_withdraw = IntOf(c)]

\* withdraw_cb resumed with a message of content c.
FieldTaken(fl, c) ==
    CASE fl.pc = "bank_name" -> [fl EXCEPT !.pc = "account_number", !.bank_name = c]
      [] fl.pc = "account_number" -> [fl EXCEPT !.pc = "account_name", !.account_number = c]
      [] fl.pc = "account_name" -> [fl EXCEPT !.pc = "points", !.account_name = c]
      [] fl.pc = "points" -> Validated(fl, c)

\* A timeout of one of the four waits that keeps what was collected as a row.
WithdrawTimeoutPartial(w) ==
    /\ wd[w].pc \in Collecting
    /\ wd' = [wd EXCEPT ![w] = EndedWithdraw(wd[w], "timed_out")]
    /\ withdrawals' = withdrawals \cup
           {[id |-> nextWid, user_id |-> wd[w].user, bank_name |-> wd[w].bank_name,
             account_number |-> wd[w].account_number, account_name |-> wd[w].account_name,
             points |-> 0, status |-> "pending"]}
    /\ nextWid' = nextWid + 1
    /\ UNCHANGED <<users, tasks, nextTid, submissions, nextSid, banned, vIntake, vReview,
                   profiles, removing, call, history, startup>>

\* asyncio.TimeoutError of one of the four waits (timeout=60).
WithdrawTimeout(w) ==
    /\ wd[w].pc \in Collecting
    /\ wd' = [wd EXCEPT ![w] = EndedWithdraw(wd[w], "timed_out")]
    /\ UNCHANGED <<vLedger, vIntake, vReview, profiles, removing, call, history, startup>>

\* Commit, first statement: UPDATE users SET points = points - amount.
Debit(w) ==
    /\ wd[w].pc = "debit"
    /\ users' = AddPoints(wd[w].user, 0 - wd[w].points_to_withdraw)
    /\ wd' = [wd EXCEPT ![w].pc = "insert_withdrawal"]
    /\ UNCHANGED <<tasks, nextTid, submissions, nextSid, withdrawals, nextWid, banned,
                   vIntake, vReview, profiles, removing, call, history, startup>>

\* Commit, second statement: INSERT INTO withdrawals ... RETURNING id; then the
\* request is posted with its Approve button.
NewWithdrawal(fl) == [id |-> nextWid, user_id |-> fl.user, bank_name |-> fl.bank_name,
                      account_number |-> fl.account_number,
                      account_name |-> fl.account_name, points |-> fl.points_to_withdraw,
                      status |-> "pending"]

InsertWithdrawal(w) ==
    /\ wd[w].pc = "insert_withdrawal"
    /\ withdrawals' = withdrawals \cup {NewWithdrawal(wd[w])}
    /\ nextWid' = nextWid + 1
    /\ wd' = [wd EXCEPT ![w] = EndedWithdraw([wd[w] EXCEPT !.withdrawal_id = nextWid], "posted")]
    /\ UNCHANGED <<users, tasks, nextTid, submissions, nextSid, banned, vIntake, vReview,
                   profiles, removing, call, history, startup>>

\* Commit, second statement: the store fails and conn.fetchrow raises; the
\* debit stays committed.
InsertWithdrawalFails(w) ==
    /\ wd[w].pc = "insert_withdrawal"
    /\ wd' = [wd EXCEPT ![w] = EndedWithdraw(wd[w], "insert_failed")]
    /\ UNCHANGED <<vLedger, vIntake, vReview, profiles, removing, call, history, startup>>

\* An approval that takes the amount from the balance once more.
ApproveWithdrawalDebits(wid, a) ==
    /\ \E w \in 1..NWithdraw : wd[w].pc = "posted" /\ wd[w].withdrawal_id = wid
    /\ a = GuildOwner
    /\ withdrawals' = {IF r.id = wid THEN [r EXCEPT !.status = "completed"] ELSE r :
                          r \in withdrawals}
    /\ users' = [u \in DOMAIN users |->
                    IF \E r \in withdrawals : r.id = wid /\ r.user_id = u
                    THEN users[u] - (CHOOSE r \in withdrawals : r.id = wid).points
                    ELSE users[u]]
    /\ UNCHANGED <<tasks, nextTid, submissions, nextSid, nextWid, banned, vIntake,
                   vReview, vWithdraw, removing, call, history, startup>>

\* approve_withdrawal_cb of the posted request wid, clicked by a.
approve_withdrawal_cb(wid, a) ==
    /\ \E w \in 1..NWithdraw : wd[w].pc = "posted" /\ wd[w].withdrawal_id = wid
    /\ withdrawals' = IF a # GuildOwner THEN withdrawals
                      ELSE {IF r.id = wid THEN [r EXCEPT !.status = "completed"] ELSE r :
                               r \in withdrawals}
    /\ UNCHANGED <<users, tasks, nextTid, submissions, nextSid, nextWid, banned, vIntake,
                   vReview, vWithdraw, removing, call, history, startup>>

\* ----------------------------------------------------------- history pager
\* next_cb of the profile of member, clicked by a: a TaskHistoryView on page 0.
next_cb(member, a) ==
    /\ member \in profiles
    /\ history[member].total_completed_tasks > 0
    /\ ~history[member].open
    /\ history' = IF a # member /\ a # GuildOwner THEN history
                  ELSE [history EXCEPT ![member].open = TRUE, ![member].page = 0,
                                       ![member].rows = build_history_embed(member, 0)]
    /\ UNCHANGED <<vLedger, vIntake, vReview, vWithdraw, removing, call, startup>>

\* on_next_page_click, then update_view.
on_next_page_click(member) ==
    /\ history[member].open
    /\ total_pages(history[member].total_completed_tasks) > 1
    /\ history[member].page < total_pages(history[member].total_completed_tasks) - 1
    /\ history' = [history EXCEPT ![member].page = @ + 1,
                       ![member].rows = build_history_embed(member, history[member].page + 1)]
    /\ UNCHANGED <<vLedger, vIntake, vReview, vWithdraw, removing, call, startup>>

\* on_previous_page_click, then update_view.
on_previous_page_click(member) ==
    /\ history[member].open
    /\ total_pages(history[member].total_completed_tasks) > 1
    /\ history[member].page > 0
    /\ history' = [history EXCEPT ![member].page = @ - 1,
                       ![member].rows = build_history_embed(member, history[member].page - 1)]
    /\ UNCHANGED <<vLedger, vIntake, vReview, vWithdraw, removing, call, startup>>

\* on_back_to_profile_click: the message shows the profile again.
on_back_to_profile_click(member) ==
    /\ history[member].open
    /\ history' = [history EXCEPT ![member].open = FALSE, ![member].page = 0,
                                  ![member].rows = <<>>]
    /\ UNCHANGED <<vLedger, vIntake, vReview, vWithdraw, removing, call, startup>>

HistoryStep ==
    \/ \E u \in Users, a \in Users \cup {GuildOwner} : next_cb(u, a)
    \/ \E u \in Users : on_next_page_click(u)
    \/ \E u \in Users : on_previous_page_click(u)
    \/ \E u \in Users : on_back_to_profile_click(u)

\* ---------------------------------------------------------------- messages
\* A message is named after the first task_cb it resumes.
MsgName(u, c) == CHOOSE f \in 1..NIntake :
    TakesProof(f, u, c) /\ \A g \in 1..NIntake : TakesProof(g, u, c) => f <= g

\* A message of user u with content c: every handler waiting for it is resumed with it.
UserMessage(u, c) ==
    /\ \/ \E f \in 1..NIntake : TakesProof(f, u, c)
       \/ \E w \in 1..NWithdraw : TakesField(w, u)
    /\ intake' = [f \in 1..NIntake |->
                    IF TakesProof(f, u, c)
                    THEN [intake[f] EXCEPT !.pc = "delete_msg", !.msg = MsgName(u, c),
                                           !.proof = Strip(c)]
                    ELSE intake[f]]
    /\ wd' = [w \in 1..NWithdraw |-> IF TakesField(w, u) THEN FieldTaken(wd[w], c) ELSE wd[w]]
    /\ UNCHANGED <<vLedger, last_click, now, boards, deleted, vReview, profiles, removing, call, history, startup>>

\* ------------------------------------------------------ admin: remove a task
\* remove_task_button, first statement: DELETE FROM submissions WHERE task_id=t.
RemoveSubmissions(t) ==
    /\ t \in DOMAIN tasks
    /\ t \notin removing
    /\ submissions' = {s \in submissions : s.task_id # t}
    /\ removing' = removing \cup {t}
    /\ UNCHANGED <<users, tasks, nextTid, nextSid, withdrawals, nextWid, banned, vIntake,
                   vReview, vWithdraw, call, history, startup>>

\* remove_task_button, second statement: DELETE FROM tasks WHERE id=t, which
\* raises while a submission references the task.
RemoveTaskRow(t) ==
    /\ t \in removing
    /\ tasks' = IF \E s \in submissions : s.task_id = t THEN tasks
                ELSE [x \in DOMAIN tasks \ {t} |-> tasks[x]]
    /\ removing' = removing \ {t}
    /\ UNCHANGED <<users, nextTid, submissions, nextSid, withdrawals, nextWid, banned,
                   vIntake, vReview, vWithdraw, call, history, startup>>

\* archive_task_button: UPDATE tasks SET archived=1 WHERE id=t.
archive_task_button(t) ==
    /\ t \in DOMAIN tasks
    /\ tasks' = Archive({t})
    /\ UNCHANGED <<users, nextTid, submissions, nextSid, withdrawals, nextWid, banned,
                   vIntake, vReview, vWithdraw, removing, call, history, startup>>

\* An edit that also reopens the quest: UPDATE tasks SET points=...,
\* max_submissions=..., archived=0 WHERE id=t.
EditTaskReopens(t, points, max_subs) ==
    /\ t < nextTid
    /\ tasks' = [x \in DOMAIN tasks |->
                    IF x = t THEN [tasks[x] EXCEPT !.points = points,
                                                   !.max_submissions = max_subs,
                                                   !.archived = FALSE]
                    ELSE tasks[x]]
    /\ UNCHANGED <<users, nextTid, submissions, nextSid, withdrawals, nextWid, banned,
                   vIntake, vReview, vWithdraw, removing, call, history, startup>>

\* EditTaskModal.on_submit with valid numbers: UPDATE tasks SET points=...,
\* max_submissions=... WHERE id=t, which changes no row once the task is removed.
EditTask(t, points, max_subs) ==
    /\ t < nextTid
    /\ tasks' = [x \in DOMAIN tasks |->
                    IF x = t THEN [tasks[x] EXCEPT !.points = points,
                                                   !.max_submissions = max_subs]
                    ELSE tasks[x]]
    /\ UNCHANGED <<users, nextTid, submissions, nextSid, withdrawals, nextWid, banned,
                   vIntake, vReview, vWithdraw, removing, call, history, startup>>

ManageStep ==
    \/ \E t \in 1..MaxTasks : archive_task_button(t)
    \/ \E t \in 1..MaxTasks, i \in TaskInputs : EditTask(t, i[1], i[2])

\* -------------------------------------------------------------------- next
Contents == {ProofLink, ProofLinkSp, Chatter, Amount1000, Amount1500, Amount500, AmountNeg}

TaskStep ==
    \/ \E i \in TaskInputs : AddTask(i[1], i[2])
    \/ \E b \in 1..NBoards, u \in Users : tasks_cmd(b, u)
    \/ \E u \in Users : BanUser(u)

IntakeStep ==
    \/ Tick
    \/ \E f \in 1..NIntake, b \in 1..NBoards, u \in Users, t \in 1..MaxTasks :
           TaskClick(f, b, u, t)
    \/ \E f \in 1..NIntake : CooldownGate(f)
    \/ \E f \in 1..NIntake : CapacityCheck(f)
    \/ \E f \in 1..NIntake : ArchiveFull(f)
    \/ \E f \in 1..NIntake : RefreshBoard(f)
    \/ \E f \in 1..NIntake : DuplicateCheck(f)
    \/ \E f \in 1..NIntake : ProofTimeout(f)
    \/ \E f \in 1..NIntake : DeleteProofMsg(f)
    \/ \E f \in 1..NIntake : EnsureUser(f)
    \/ \E f \in 1..NIntake : InsertSubmission(f)

ReviewStep ==
    \/ review_cmd
    \/ \E v \in 1..NReview, sid \in menu : SelectForReview(v, sid)
    \/ \E v \in 1..NReview : ApproveStatus(v)
    \/ \E v \in 1..NReview : ApproveCredit(v)
    \/ \E v \in 1..NReview : ApproveCreditFails(v)
    \/ \E v \in 1..NReview : Reject(v)

WithdrawStep ==
    \/ \E u \in Users : profile_cmd(u)
    \/ \E w \in 1..NWithdraw, u \in Users : WithdrawClick(w, u)
    \/ \E w \in 1..NWithdraw : Eligibility(w)
    \/ \E w \in 1..NWithdraw : WithdrawTimeout(w)
    \/ \E w \in 1..NWithdraw : Debit(w)
    \/ \E w \in 1..NWithdraw : InsertWithdrawal(w)
    \/ \E w \in 1..NWithdraw : InsertWithdrawalFails(w)
    \/ \E r \in withdrawals, a \in Users \cup {GuildOwner} : approve_withdrawal_cb(r.id, a)

RemoveStep ==
    \/ \E t \in 1..MaxTasks : RemoveSubmissions(t)
    \/ \E t \in 1..MaxTasks : RemoveTaskRow(t)

Next ==
    \/ TaskStep
    \/ IntakeStep
    \/ \E u \in Users, c \in Contents : UserMessage(u, c)
    \/ ReviewStep
    \/ WithdrawStep
    \/ RemoveStep
    \/ HistoryStep
    \/ ManageStep

Spec == Init /\ [][Next]_vars

\* The submission intake alone: quests, boards, clicks, proofs.
NextIntake ==
    \/ TaskStep
    \/ IntakeStep
    \/ \E u \in Users, c \in {ProofLink, ProofLinkSp, Chatter} : UserMessage(u, c)

SpecIntake == Init /\ [][NextIntake]_vars

\* ------------------------------------------------------ a populated database
\* init_db creates its tables IF NOT EXISTS: the bot starts on what earlier runs
\* left in the database.  Here: quest 1 (1000 points, one slot) was taken by u1,
\* approved and archived; quest 2 (200 points, two slots) holds the pending
\* submissions of u2 and u1.  Nothing is in memory yet.
StoredTasks == (1 :> [points |-> 1000, max_submissions |-> 1, archived |-> TRUE])
               @@ (2 :> [points |-> 200, max_submissions |-> 2, archived |-> FALSE])

StoredSubmissions ==
    {[id |-> 1, user_id |-> "u1", task_id |-> 1, proof |-> ProofLink,
      status |-> "approved", reviewed_at |-> "CURRENT_TIMESTAMP"],
     [id |-> 2, user_id |-> "u2", task_id |-> 2, proof |-> ProofLink,
      status |-> "pending", reviewed_at |-> "NULL"],
     [id |-> 3, user_id |-> "u1", task_id |-> 2, proof |-> ProofLink,
      status |-> "pending", reviewed_at |-> "NULL"]}

InitStored ==
    /\ users = ("u1" :> 1000) @@ ("u2" :> 0)
    /\ tasks = StoredTasks
    /\ nextTid = 3
    /\ submissions = StoredSubmissions
    /\ nextSid = 4
    /\ withdrawals = {}
    /\ nextWid = 1
    /\ banned = {}
    /\ last_click = <<>>
    /\ now = 0
    /\ boards = [b \in 1..NBoards |-> NoBoard]
    /\ intake = [f \in 1..NIntake |-> IdleIntake]
    /\ deleted = {}
    /\ menu = {}
    /\ review = [v \in 1..NReview |-> IdleReview]
    /\ profiles = {}
    /\ wd = [w \in 1..NWithdraw |-> IdleWithdraw]
    /\ removing = {}
    /\ call = NoCall
    /\ history = [u \in Users |-> NoHistory]
    /\ startup = Started

\* The review of submissions, with the removal of quests.
NextReview ==
    \/ ReviewStep
    \/ RemoveStep

SpecReview == InitStored /\ [][NextReview]_vars

\* The withdrawal of points.
Amounts == {Amount1000, Amount1500, Amount500, AmountNeg}

NextWithdraw ==
    \/ WithdrawStep
    \/ \E u \in Users, c \in Amounts : UserMessage(u, c)

SpecWithdraw == InitStored /\ [][NextWithdraw]_vars

\* A second populated database: u1 holds 0 points and has submitted both
\* quests; both submissions are pending (quest 1 is full, so archived).
InitTwoPending ==
    /\ users = ("u1" :> 0)
    /\ tasks = StoredTasks
    /\ nextTid = 3
    /\ submissions =
           {[id |-> 1, user_id |-> "u1", task_id |-> 1, proof |-> ProofLink,
             status |-> "pending", reviewed_at |-> "NULL"],
            [id |-> 2, user_id |-> "u1", task_id |-> 2, proof |-> ProofLink,
             status |-> "pending", reviewed_at |-> "NULL"]}
    /\ nextSid = 3
    /\ withdrawals = {}
    /\ nextWid = 1
    /\ banned = {}
    /\ last_click = <<>>
    /\ now = 0
    /\ boards = [b \in 1..NBoards |-> NoBoard]
    /\ intake = [f \in 1..NIntake |-> IdleIntake]
    /\ deleted = {}
    /\ menu = {}
    /\ review = [v \in 1..NReview |-> IdleReview]
    /\ profiles = {}
    /\ wd = [w \in 1..NWithdraw |-> IdleWithdraw]
    /\ removing = {}
    /\ call = NoCall
    /\ history = [u \in Users |-> NoHistory]
    /\ startup = Started

SpecReviewTwo == InitTwoPending /\ [][NextReview]_vars

\* One quest worth 200 points with one slot, its intake and its approval.
ScenarioTask == <<200, 1>>

AddScenarioTask ==
    /\ nextTid = 1
    /\ AddTask(ScenarioTask[1], ScenarioTask[2])

NextScenario ==
    \/ AddScenarioTask
    \/ \E b \in 1..NBoards, u \in Users : tasks_cmd(b, u)
    \/ IntakeStep
    \/ \E u \in Users : UserMessage(u, ProofLink)
    \/ review_cmd
    \/ \E v \in 1..NReview, sid \in menu : SelectForReview(v, sid)
    \/ \E v \in 1..NReview : ApproveStatus(v)
    \/ \E v \in 1..NReview : ApproveCredit(v)

SpecScenario == Init /\ [][NextScenario]_vars

\* ------------------------------------------------------ one handler at a time
\* A database left by earlier runs: u1 holds 1000 points; quest 1 (200 points,
\* 2 slots) is open; u1 clicked its button twelve times, 10 s apart, before
\* sending one link, which made twelve submissions; eleven were rejected since.
StoredHistory ==
    {[id |-> i, user_id |-> "u1", task_id |-> 1, proof |-> ProofLink,
      status |-> IF i <= submissions_per_page + 1 THEN "rejected" ELSE "pending",
      reviewed_at |-> IF i <= submissions_per_page + 1 THEN "CURRENT_TIMESTAMP" ELSE "NULL"] :
        i \in 1..(submissions_per_page + 2)}

InitFrame ==
    /\ users = ("u1" :> 1000)
    /\ tasks = (1 :> [points |-> 200, max_submissions |-> 2, archived |-> FALSE])
    /\ nextTid = 2
    /\ submissions = StoredHistory
    /\ nextSid = submissions_per_page + 3
    /\ withdrawals = {}
    /\ nextWid = 1
    /\ banned = {}
    /\ last_click = <<>>
    /\ now = 0
    /\ boards = [b \in 1..NBoards |-> NoBoard]
    /\ intake = [f \in 1..NIntake |-> IdleIntake]
    /\ deleted = {}
    /\ menu = {}
    /\ review = [v \in 1..NReview |-> IdleReview]
    /\ profiles = {}
    /\ wd = [w \in 1..NWithdraw |-> IdleWithdraw]
    /\ removing = {}
    /\ call = NoCall
    /\ history = [u \in Users |-> NoHistory]
    /\ startup = Started

\* The most parts of the bot one session uses.
MaxTouched == 2

\* A handler is between two of its awaits.
Busy ==
    \/ \E f \in 1..NIntake : intake[f].pc \in
           {"is_banned", "count", "full_archive", "full_refresh", "dup_check",
            "awaiting_proof", "delete_msg", "ensure_user", "insert", "refresh"}
    \/ \E v \in 1..NReview : review[v].pc = "approve_credit"
    \/ \E w \in 1..NWithdraw : wd[w].pc \in Collecting \cup {"get_points", "debit",
                                                             "insert_withdrawal"}
    \/ removing # {}

\* The parts of the bot used so far: the quest management, the bans, the
\* boards, the intake, the review, the profiles with their withdrawals and
\* histories.
Touched ==
    (IF nextTid # 2 \/ 1 \notin DOMAIN tasks \/ removing # {} THEN 1
     ELSE IF tasks[1] # [points |-> 200, max_submissions |-> 2, archived |-> FALSE] THEN 1
     ELSE 0)
    + (IF banned # {} THEN 1 ELSE 0)
    + (IF \E b \in 1..NBoards : boards[b] # NoBoard THEN 1 ELSE 0)
    + (IF \E f \in 1..NIntake : intake[f] # IdleIntake THEN 1 ELSE 0)
    + (IF menu # {} THEN 1 ELSE 0)
    + (IF profiles # {} THEN 1 ELSE 0)

\* A session brings at most MaxTouched parts of the bot into use.
Within == Touched' <= Touched \/ Touched' <= MaxTouched

\* A command, a click or a modal is dispatched when no handler is suspended.
Dispatch == ~Busy

\* Every handler of the bot, each run to its return before the next is dispatched.
NextFrame ==
    \/ \E i \in TaskInputs : Dispatch /\ AddTask(i[1], i[2]) /\ Within
    \/ \E b \in 1..NBoards, u \in Users : Dispatch /\ tasks_cmd(b, u) /\ Within
    \/ \E u \in Users : Dispatch /\ BanUser(u) /\ Within
    \/ \E f \in 1..NIntake, b \in 1..NBoards, u \in Users, t \in 1..MaxTasks :
           Dispatch /\ TaskClick(f, b, u, t) /\ Within
    \/ Dispatch /\ review_cmd /\ Within
    \/ \E v \in 1..NReview, sid \in menu : Dispatch /\ SelectForReview(v, sid)
    \/ \E v \in 1..NReview : Dispatch /\ ApproveStatus(v)
    \/ \E v \in 1..NReview : Dispatch /\ Reject(v)
    \/ \E u \in Users : Dispatch /\ profile_cmd(u) /\ Within
    \/ \E w \in 1..NWithdraw, u \in Users : Dispatch /\ WithdrawClick(w, u)
    \/ \E r \in withdrawals, a \in Users \cup {GuildOwner} :
           Dispatch /\ approve_withdrawal_cb(r.id, a)
    \/ \E t \in 1..MaxTasks : Dispatch /\ RemoveSubmissions(t) /\ Within
    \/ \E u \in Users, a \in Users \cup {GuildOwner} : Dispatch /\ next_cb(u, a)
    \/ \E u \in Users : Dispatch /\ on_next_page_click(u)
    \/ \E u \in Users : Dispatch /\ on_previous_page_click(u)
    \/ \E u \in Users : Dispatch /\ on_back_to_profile_click(u)
    \/ \E t \in 1..MaxTasks : Dispatch /\ archive_task_button(t) /\ Within
    \/ \E t \in 1..MaxTasks, i \in TaskInputs : Dispatch /\ EditTask(t, i[1], i[2]) /\ Within
    \/ Tick
    \/ \E f \in 1..NIntake : CooldownGate(f)
    \/ \E f \in 1..NIntake : CapacityCheck(f)
    \/ \E f \in 1..NIntake : ArchiveFull(f)
    \/ \E f \in 1..NIntake : RefreshBoard(f)
    \/ \E f \in 1..NIntake : DuplicateCheck(f)
    \/ \E f \in 1..NIntake : ProofTimeout(f)
    \/ \E f \in 1..NIntake : DeleteProofMsg(f)
    \/ \E f \in 1..NIntake : EnsureUser(f)
    \/ \E f \in 1..NIntake : InsertSubmission(f)
    \/ \E u \in Users :
           (\E f \in 1..NIntake : TakesProof(f, u, ProofLink)) /\ UserMessage(u, ProofLink)
    \/ \E u \in Users :
           (\E w \in 1..NWithdraw : TakesField(w, u)) /\ UserMessage(u, Amount1000)
    \/ \E v \in 1..NReview : ApproveCredit(v)
    \/ \E v \in 1..NReview : ApproveCreditFails(v)
    \/ \E w \in 1..NWithdraw : Eligibility(w)
    \/ \E w \in 1..NWithdraw : WithdrawTimeout(w)
    \/ \E w \in 1..NWithdraw : Debit(w)
    \/ \E w \in 1..NWithdraw : InsertWithdrawal(w)
    \/ \E w \in 1..NWithdraw : InsertWithdrawalFails(w)
    \/ \E t \in 1..MaxTasks : RemoveTaskRow(t)

SpecFrame == InitFrame /\ [][NextFrame]_vars

\* ------------------------------------------------- intake of managed quests
\* The intake while an admin archives and edits the quests, on a database where
\* quest 2 (200 points, 2 slots) is open and holds one pending submission.
NextManaged ==
    \/ \E b \in 1..NBoards, u \in Users : tasks_cmd(b, u)
    \/ IntakeStep
    \/ \E u \in Users : UserMessage(u, ProofLink)
    \/ ManageStep

SpecManaged == InitTwoPending /\ [][NextManaged]_vars

\* ------------------------------------------------ intake after a rejection
\* The quest of the scenario with its intake and its review, rejections included.
NextResubmit ==
    \/ NextScenario
    \/ \E v \in 1..NReview : Reject(v)

SpecResubmit == Init /\ [][NextResubmit]_vars

\* The boards and the intake, with the removal of quests.
NextRemoval ==
    \/ \E b \in 1..NBoards, u \in Users : tasks_cmd(b, u)
    \/ IntakeStep
    \/ \E u \in Users : UserMessage(u, ProofLink)
    \/ RemoveStep

SpecRemoval == InitTwoPending /\ [][NextRemoval]_vars

\* ------------------------------------------------ handlers that run to their end
\* The steps task_cb f takes by itself: each await returns, the wait for the
\* proof by its timeout if no message comes.
IntakeRuns(f) ==
    \/ CooldownGate(f)
    \/ CapacityCheck(f)
    \/ ArchiveFull(f)
    \/ RefreshBoard(f)
    \/ DuplicateCheck(f)
    \/ ProofTimeout(f)
    \/ DeleteProofMsg(f)
    \/ EnsureUser(f)
    \/ InsertSubmission(f)

\* The steps withdraw_cb w takes by itself.
WithdrawRuns(w) ==
    \/ Eligibility(w)
    \/ WithdrawTimeout(w)
    \/ Debit(w)
    \/ InsertWithdrawal(w)
    \/ InsertWithdrawalFails(w)

\* u2 opens boards, clicks quests and sends proof links; u1, who holds the
\* points, opens the profile, clicks Withdraw Points once and answers the prompts.
NextLive ==
    \/ Tick
    \/ \E b \in 1..NBoards : tasks_cmd(b, "u2")
    \/ profile_cmd("u1")
    \/ \E f \in 1..NIntake, b \in 1..NBoards, t \in 1..MaxTasks : TaskClick(f, b, "u2", t)
    \/ WithdrawClick(1, "u1")
    \/ UserMessage("u2", ProofLink)
    \/ UserMessage("u1", Amount1000)
    \/ \E f \in 1..NIntake : IntakeRuns(f)
    \/ \E w \in 1..NWithdraw : WithdrawRuns(w)

\* The event loop runs every handler that can go on, and fires the timeout of
\* every wait_for.
SpecLive ==
    /\ InitFrame
    /\ [][NextLive]_vars
    /\ \A f \in 1..NIntake : WF_vars(IntakeRuns(f))
    /\ \A w \in 1..NWithdraw : WF_vars(WithdrawRuns(w))

\* The boards and the intake of u2, with the rejection of submissions, the
\* archive button and the edit that sets a quest to 200 points and 2 slots.
NextArchive ==
    \/ Tick
    \/ \E b \in 1..NBoards : tasks_cmd(b, "u2")
    \/ \E f \in 1..NIntake, b \in 1..NBoards, t \in 1..MaxTasks : TaskClick(f, b, "u2", t)
    \/ \E f \in 1..NIntake : IntakeRuns(f)
    \/ UserMessage("u2", ProofLink)
    \/ review_cmd
    \/ \E v \in 1..NReview, sid \in menu : SelectForReview(v, sid)
    \/ \E v \in 1..NReview : Reject(v)
    \/ \E t \in 1..MaxTasks : archive_task_button(t)
    \/ \E t \in 1..MaxTasks : EditTask(t, 200, 2)

SpecArchive == InitTwoPending /\ [][NextArchive]_vars

\* The review of submissions, with the manage view.
NextReviewEdit ==
    \/ ReviewStep
    \/ ManageStep

SpecReviewEdit == InitStored /\ [][NextReviewEdit]_vars

\* ------------------------------------------------- boards of a long quest list
\* Databases with more quests than a board shows: 2 * BoardCap quests of one
\* slot each, none archived, those of `full` holding one pending submission each
\* (written by task_cb whose board refresh has not run, or has not reached them).
StoredQuests == 2 * BoardCap

LongList(full) ==
    [tasks |-> [t \in 1..StoredQuests |->
                   [points |-> 200, max_submissions |-> 1, archived |-> FALSE]],
     submissions |-> {[id |-> t, user_id |-> "u2", task_id |-> t, proof |-> ProofLink,
                       status |-> "pending", reviewed_at |-> "NULL"] : t \in full}]

\* No quest is full; quests 2 to BoardCap are; all but the first and the last are.
LongLists == {LongList({}), LongList(2..BoardCap), LongList(2..(StoredQuests - 1))}

InitBoard ==
    /\ \E db \in LongLists : tasks = db.tasks /\ submissions = db.submissions
    /\ users = ("u2" :> 0)
    /\ nextTid = StoredQuests + 1
    /\ nextSid = StoredQuests + 1
    /\ withdrawals = {}
    /\ nextWid = 1
    /\ banned = {}
    /\ last_click = <<>>
    /\ now = 0
    /\ boards = [b \in 1..NBoards |-> NoBoard]
    /\ intake = [f \in 1..NIntake |-> IdleIntake]
    /\ deleted = {}
    /\ menu = {}
    /\ review = [v \in 1..NReview |-> IdleReview]
    /\ profiles = {}
    /\ wd = [w \in 1..NWithdraw |-> IdleWithdraw]
    /\ removing = {}
    /\ call = NoCall
    /\ history = [u \in Users |-> NoHistory]
    /\ startup = Started

\* The boards and the intake.
NextBoard ==
    \/ \E b \in 1..NBoards, u \in Users : tasks_cmd(b, u)
    \/ IntakeStep
    \/ \E u \in Users : UserMessage(u, ProofLink)

SpecBoard == InitBoard /\ [][NextBoard]_vars

\* ------------------------------------------------- history of a reviewed member
\* A database in which u1 has submissions_per_page decided submissions of quest 1
\* and two pending ones (the clicks of StoredHistory, ten of them rejected).
ReviewedHistory ==
    {[id |-> i, user_id |-> "u1", task_id |-> 1, proof |-> ProofLink,
      status |-> IF i <= submissions_per_page THEN "rejected" ELSE "pending",
      reviewed_at |-> IF i <= submissions_per_page THEN "CURRENT_TIMESTAMP" ELSE "NULL"] :
        i \in 1..(submissions_per_page + 2)}

InitHistory ==
    /\ users = ("u1" :> 0)
    /\ tasks = (1 :> [points |-> 200, max_submissions |-> 2, archived |-> TRUE])
    /\ nextTid = 2
    /\ submissions = ReviewedHistory
    /\ nextSid = submissions_per_page + 3
    /\ withdrawals = {}
    /\ nextWid = 1
    /\ banned = {}
    /\ last_click = <<>>
    /\ now = 0
    /\ boards = [b \in 1..NBoards |-> NoBoard]
    /\ intake = [f \in 1..NIntake |-> IdleIntake]
    /\ deleted = {}
    /\ menu = {}
    /\ review = [v \in 1..NReview |-> IdleReview]
    /\ profiles = {}
    /\ wd = [w \in 1..NWithdraw |-> IdleWithdraw]
    /\ removing = {}
    /\ call = NoCall
    /\ history = [u \in Users |-> NoHistory]
    /\ startup = Started

\* The profile with its history pager, and the review of submissions.
NextHistory ==
    \/ \E u \in Users : profile_cmd(u)
    \/ HistoryStep
    \/ ReviewStep

SpecHistory == InitHistory /\ [][NextHistory]_vars

\* ------------------------------------------------------------------ startup
\* The commands a member can send once the bot is connected.
Commands == {"tasks", "profile", "review", "leaderboard"}

\* bot.run(TOKEN) has connected; on_ready has not run; DATABASE_URL is set or not.
InitStartup ==
    /\ users = ("u1" :> 1000) @@ ("u2" :> 0)
    /\ tasks = StoredTasks
    /\ nextTid = 3
    /\ submissions = StoredSubmissions
    /\ nextSid = 4
    /\ withdrawals = {}
    /\ nextWid = 1
    /\ banned = {}
    /\ last_click = <<>>
    /\ now = 0
    /\ boards = [b \in 1..NBoards |-> NoBoard]
    /\ intake = [f \in 1..NIntake |-> IdleIntake]
    /\ deleted = {}
    /\ menu = {}
    /\ review = [v \in 1..NReview |-> IdleReview]
    /\ profiles = {}
    /\ wd = [w \in 1..NWithdraw |-> IdleWithdraw]
    /\ removing = {}
    /\ call = NoCall
    /\ history = [u \in Users |-> NoHistory]
    /\ startup \in {[DATABASE_URL |-> url, db_pool |-> "None", ready_ran |-> FALSE,
                     pc |-> "connected", create_pool_failed |-> FALSE, handled |-> {}] :
                        url \in {"set", "unset"}}

\* on_ready, first time: bot.ready_ran = True, then init_db up to its first await;
\* without DATABASE_URL init_db prints and returns, and on_ready ends.
on_ready ==
    /\ startup.pc = "connected"
    /\ ~startup.ready_ran
    /\ startup' = [startup EXCEPT !.ready_ran = TRUE,
                       !.pc = IF startup.DATABASE_URL = "unset" THEN "ready"
                              ELSE "create_pool"]
    /\ UNCHANGED <<vLedger, vIntake, vReview, vWithdraw, removing, call, history>>

\* init_db: asyncpg.create_pool returns and the tables are ensured.
init_db ==
    /\ startup.pc = "create_pool"
    /\ startup' = [startup EXCEPT !.db_pool = "pool", !.pc = "ready"]
    /\ UNCHANGED <<vLedger, vIntake, vReview, vWithdraw, removing, call, history>>

\* init_db: asyncpg.create_pool raises; except Exception: await bot.close().
init_db_fails ==
    /\ startup.pc = "create_pool"
    /\ startup' = [startup EXCEPT !.create_pool_failed = TRUE, !.pc = "closed"]
    /\ UNCHANGED <<vLedger, vIntake, vReview, vWithdraw, removing, call, history>>

\* A command of a connected bot whose db_pool is None: its handler runs up to
\* db_pool.acquire(), which raises AttributeError.
CommandWithoutPool(c) ==
    /\ startup.pc # "closed"
    /\ startup.db_pool = "None"
    /\ startup' = [startup EXCEPT !.handled = @ \cup {c}]
    /\ UNCHANGED <<vLedger, vIntake, vReview, vWithdraw, removing, call, history>>

\* The bot is connected and holds its pool.
Serving == startup.pc # "closed" /\ startup.db_pool = "pool"

NextStartup ==
    \/ on_ready
    \/ init_db
    \/ init_db_fails
    \/ \E c \in Commands : CommandWithoutPool(c)
    \/ Serving /\ review_cmd
    \/ \E v \in 1..NReview, sid \in menu : Serving /\ SelectForReview(v, sid)
    \/ \E v \in 1..NReview : Serving /\ ApproveStatus(v)
    \/ \E v \in 1..NReview : Serving /\ ApproveCredit(v)
    \/ \E v \in 1..NReview : Serving /\ ApproveCreditFails(v)
    \/ \E v \in 1..NReview : Serving /\ Reject(v)

SpecStartup == InitStartup /\ [][NextStartup]_vars

\* ------------------------------------------------------------ pure helpers
\* The balances the helpers are called with: around every threshold, below 0
\* and above the last one.
PointValues == {-1, 0, 1, 479, 480, 499, 500, 501, 999, 1000, 1001, 1499, 1500, 1501,
                1600, 1999, 2000, 2001, 2500}

\* The milestone lists the helper is called with: the configured one, and one
\* that is not in ascending order.
MilestoneLists == {MILESTONES, <<1500, 500, 1000>>}

MilestoneCalls ==
    {[fn |-> "next_milestones_reached", args |-> <<o, n, ms>>, out |-> <<>>,
      returned |-> FALSE] : o \in PointValues, n \in PointValues, ms \in MilestoneLists}

\* get_rank for the balances of two profiles.
RankCalls ==
    {[fn |-> "get_rank", args |-> <<p1, p2>>, out |-> <<>>, returned |-> FALSE] :
        p1 \in PointValues, p2 \in PointValues}

InitPure ==
    /\ users = <<>>
    /\ tasks = <<>>
    /\ nextTid = 1
    /\ submissions = {}
    /\ nextSid = 1
    /\ withdrawals = {}
    /\ nextWid = 1
    /\ banned = {}
    /\ last_click = <<>>
    /\ now = 0
    /\ boards = [b \in 1..NBoards |-> NoBoard]
    /\ intake = [f \in 1..NIntake |-> IdleIntake]
    /\ deleted = {}
    /\ menu = {}
    /\ review = [v \in 1..NReview |-> IdleReview]
    /\ profiles = {}
    /\ wd = [w \in 1..NWithdraw |-> IdleWithdraw]
    /\ removing = {}
    /\ call \in MilestoneCalls \cup RankCalls
    /\ history = [u \in Users |-> NoHistory]
    /\ startup = Started

\* next_milestones_reached returns.
MilestonesReturn ==
    /\ call.fn = "next_milestones_reached"
    /\ ~call.returned
    /\ call' = [call EXCEPT !.returned = TRUE,
                    !.out = next_milestones_reached(call.args[1], call.args[2], call.args[3])]
    /\ UNCHANGED <<vLedger, vIntake, vReview, vWithdraw, removing, history, startup>>

\* The two calls of get_rank return.
RankReturn ==
    /\ call.fn = "get_rank"
    /\ ~call.returned
    /\ call' = [call EXCEPT !.returned = TRUE,
                    !.out = <<get_rank(call.args[1]), get_rank(call.args[2])>>]
    /\ UNCHANGED <<vLedger, vIntake, vReview, vWithdraw, removing, history, startup>>

NextPure ==
    \/ MilestonesReturn
    \/ RankReturn

SpecPure == InitPure /\ [][NextPure]_vars

\* ================================================================== claims
\* ------------------------------------------------------------------ intake
\* C1: in every state, no task has more non-rejected submissions than its
\* max_submissions, whatever the interleaving of intake flows.
C1_CapacityNeverExceeded ==
    \A t \in DOMAIN tasks : CountDone(t) <= tasks[t].max_submissions

\* C2: in every state, a (user, task) pair has at most one submission row.
C2_OneRowPerUserTask ==
    \A s1, s2 \in submissions :
        (s1.user_id = s2.user_id /\ s1.task_id = s2.task_id) => s1 = s2

\* C9: in every state, a task whose non-rejected submissions equal its
\* max_submissions is archived.
C9_FullImpliesArchived ==
    \A t \in DOMAIN tasks : CountDone(t) = tasks[t].max_submissions => tasks[t].archived

\* The task_cb f has passed the cooldown gate.
PastGate(f) == intake[f].pc \notin {"idle", "denied_not_caller", "is_banned", "denied_banned",
                                    "denied_cooldown"}

\* The task_cb f was started by user u on quest t.
HasKey(f, u, t) == intake[f].user = u /\ intake[f].tid = t

\* C10: the cooldown gate checks and records the click in one step, before the
\* capacity and duplicate checks.  So a task_cb that passed the gate has its click
\* recorded, even before its capacity check has run; two task_cb of one
\* (user, quest) that both passed the gate read clocks at least BUTTON_COOLDOWN
\* apart; and a (user, quest) has no more submission rows than task_cb that
\* passed the gate: the click denied at the gate writes none.
C10_CooldownGate ==
    /\ \A f \in 1..NIntake : PastGate(f) =>
           /\ <<intake[f].user, intake[f].tid>> \in DOMAIN last_click
           /\ last_click[<<intake[f].user, intake[f].tid>>] >= intake[f].now
    /\ \A f, g \in 1..NIntake :
           (f # g /\ PastGate(f) /\ PastGate(g) /\ HasKey(g, intake[f].user, intake[f].tid)
               /\ intake[f].now <= intake[g].now)
           => intake[g].now - intake[f].now >= BUTTON_COOLDOWN
    /\ \A u \in Users, t \in 1..MaxTasks :
           Cardinality({s \in submissions : s.user_id = u /\ s.task_id = t})
               <= Cardinality({f \in 1..NIntake : PastGate(f) /\ HasKey(f, u, t)})

\* C10, its case: a first click passed the gate and its proof wait timed out; a
\* second click of the same user on the same quest, less than BUTTON_COOLDOWN
\* later, was denied at the gate; the pair has no submission row.
C10_Witness ==
    \E f, g \in 1..NIntake :
        /\ f # g
        /\ intake[f].pc = "denied_timeout"
        /\ intake[g].pc = "denied_cooldown"
        /\ HasKey(g, intake[f].user, intake[f].tid)
        /\ intake[g].now > intake[f].now
        /\ intake[g].now - intake[f].now < BUTTON_COOLDOWN
        /\ ~\E s \in submissions : s.user_id = intake[f].user /\ s.task_id = intake[f].tid

\* ------------------------------------------------------------------ review
\* C3: the reward of one submission is credited at most once: of the review
\* views opened on a submission, at most one has run its credit.
C3_CreditedAtMostOnce ==
    \A sid \in menu :
        Cardinality({v \in 1..NReview : review[v].sid = sid /\ review[v].pc = "approved"}) <= 1

\* C4: in every step, a submission whose status changes was pending before.
C4_StatusOnlyLeavesPending ==
    [][\A s \in submissions : \A r \in submissions' :
           (r.id = s.id /\ r.status # s.status) => s.status = "pending"]_vars

\* The sum of the points fields of a set of rows.
RECURSIVE SumPoints(_)
SumPoints(rows) ==
    IF rows = {} THEN 0
    ELSE LET r == CHOOSE x \in rows : TRUE IN r.points + SumPoints(rows \ {r})

\* The approved submissions of u, each with the reward of its task.
ApprovedRewards(u) ==
    {[id |-> s.id, points |-> tasks[s.task_id].points] :
        s \in {r \in submissions : r.user_id = u /\ r.status = "approved"}}

\* C5: in every state, every user's points are the rewards of their approved
\* submissions minus the amounts of their withdrawal rows.
C5_LedgerEquation ==
    \A u \in DOMAIN users :
        users[u] = SumPoints(ApprovedRewards(u))
                       - SumPoints({w \in withdrawals : w.user_id = u})

\* C7: in no state has an approve written the status without the credit.
C7_ApproveAtomic ==
    \A v \in 1..NReview :
        review[v].pc \in {"approve_credit", "approve_failed", "approved"}
            => review[v].pc = "approved"

\* ---------------------------------------------------------------- withdraw
\* C6: in every state, every user's points are >= 0.
C6_PointsNeverNegative ==
    \A u \in DOMAIN users : users[u] >= 0

\* C8: in every state, a withdraw_cb that has debited the balance has its
\* withdrawal row.
C8_CommitAtomic ==
    \A w \in 1..NWithdraw :
        wd[w].pc \in {"insert_withdrawal", "insert_failed", "posted"}
            => \E r \in withdrawals : /\ r.id = wd[w].withdrawal_id
                                      /\ r.user_id = wd[w].user
                                      /\ r.points = wd[w].points_to_withdraw

\* ------------------------------------------------------- timeouts, validation
\* The positions of a task_cb on its way to a timed-out proof wait.
TimeoutPath == {"is_banned", "count", "dup_check", "awaiting_proof", "denied_timeout"}

\* C11: a task_cb ends in denied_timeout only from its proof wait, and no step
\* that takes a task_cb along the way there (click, gate, capacity check,
\* duplicate check, timeout) changes a table: no row, no task, no balance.
C11_TimeoutWritesNothing ==
    [][\A f \in 1..NIntake :
          /\ (intake'[f] # intake[f] /\ intake'[f].pc \in TimeoutPath)
                 => UNCHANGED vLedger
          /\ (intake'[f].pc = "denied_timeout" /\ intake[f].pc # "denied_timeout")
                 => intake[f].pc = "awaiting_proof"]_vars

\* C11, its case: a proof wait has timed out and the tables are as they were
\* at the start.
C11_Witness ==
    /\ \E f \in 1..NIntake : intake[f].pc = "denied_timeout"
    /\ submissions = {}
    /\ users = <<>>
    /\ \A t \in DOMAIN tasks : ~tasks[t].archived

\* The positions of a withdraw_cb on its way to a timed-out wait.
WithdrawTimeoutPath == {"get_points", "timed_out"} \cup Collecting

\* C12: a withdraw_cb ends in timed_out only from one of its four waits, and no
\* step that takes a withdraw_cb along the way there (click, eligibility, a
\* field taken, the timeout) changes a table: no debit, no withdrawal row.
C12_WithdrawTimeoutWritesNothing ==
    [][\A w \in 1..NWithdraw :
          /\ (wd'[w] # wd[w] /\ wd'[w].pc \in WithdrawTimeoutPath)
                 => UNCHANGED vLedger
          /\ (wd'[w].pc = "timed_out" /\ wd[w].pc # "timed_out")
                 => wd[w].pc \in Collecting]_vars

\* C12, its case: the negotiation of u1 (1000 points) timed out, while another
\* is at its last wait; u1 still holds 1000 points and no withdrawal row exists.
C12_Witness ==
    /\ \E w, x \in 1..NWithdraw : /\ wd[w].pc = "timed_out" /\ wd[w].user = "u1"
                                  /\ wd[x].pc = "points"
    /\ users["u1"] = 1000
    /\ withdrawals = {}

\* C13: a withdraw_cb passes validation, and so reaches its commit, only with
\* an amount >= MinWithdraw that is <= the balance the store holds at that moment.
C13_CommitOnlyIfValid ==
    [][\A w \in 1..NWithdraw :
          (wd[w].pc = "points" /\ wd'[w].pc = "debit")
              => /\ wd'[w].points_to_withdraw >= MinWithdraw
                 /\ wd'[w].points_to_withdraw <= get_user_points(wd[w].user)]_vars

\* C14: the debit of a withdraw_cb takes its amount from the balance and adds
\* no row; its insert adds one pending row of that amount and leaves the
\* balances; a step that changes withdrawals outside a withdraw_cb (the
\* approval) leaves the balances and the row ids, and changes rows only by
\* setting status to completed; the approval clicked by a member who is not an
\* administrator changes no table.
C14_WithdrawalFrame ==
    [][/\ \A w \in 1..NWithdraw :
             (wd[w].pc = "debit" /\ wd'[w].pc = "insert_withdrawal")
                 => /\ users' = [users EXCEPT ![wd[w].user] = @ - wd[w].points_to_withdraw]
                    /\ withdrawals' = withdrawals
       /\ \A w \in 1..NWithdraw :
             (wd[w].pc = "insert_withdrawal" /\ wd'[w].pc = "posted")
                 => /\ users' = users
                    /\ \E r \in withdrawals' \ withdrawals :
                          /\ withdrawals' = withdrawals \cup {r}
                          /\ r.id = wd'[w].withdrawal_id
                          /\ r.user_id = wd[w].user
                          /\ r.points = wd[w].points_to_withdraw
                          /\ r.status = "pending"
       /\ (wd' = wd /\ withdrawals' # withdrawals)
             => /\ users' = users
                /\ {r.id : r \in withdrawals'} = {r.id : r \in withdrawals}
                /\ \A r \in withdrawals' :
                      r \in withdrawals \/ \E q \in withdrawals : r = [q EXCEPT !.status = "completed"]
       /\ \A r \in withdrawals, a \in Users :
             approve_withdrawal_cb(r.id, a) => UNCHANGED vLedger]_vars

\* C14, its case: u1 withdrew 1000 of 1000 points, the request was approved:
\* one row, completed, and u1 holds 0.
C14_Witness ==
    /\ \E w \in 1..NWithdraw : /\ wd[w].pc = "posted"
                               /\ wd[w].user = "u1"
                               /\ wd[w].points_to_withdraw = 1000
    /\ \E r \in withdrawals : withdrawals = {r} /\ r.status = "completed" /\ r.points = 1000
    /\ users["u1"] = 0

\* ------------------------------------------------------------------ credits
\* The credits the review views have run for u, each with its reward.
CreditsRun(u) ==
    {[id |-> v, points |-> review[v].task_points] :
        v \in {x \in 1..NReview : review[x].pc = "approved" /\ review[x].user_id = u}}

\* C15: starting from 0 points, in every state the balance of a user is the
\* sum of the rewards of the credits run for them, however the statements of
\* the approvals interleave: no credit is lost.
C15_NoCreditLost ==
    \A u \in DOMAIN users : users[u] = SumPoints(CreditsRun(u))

\* C15, its case: the two pending submissions of u1 (1000 and 200 points) have
\* both been approved, each in a view of its own; u1 holds 1200.
C15_Witness ==
    \E v, x \in 1..NReview :
        /\ review[v].pc = "approved" /\ review[v].sid = 1 /\ review[v].user_id = "u1"
        /\ review[x].pc = "approved" /\ review[x].sid = 2 /\ review[x].user_id = "u1"
        /\ users["u1"] = 1200

\* ---------------------------------------------------------------- scenario
\* C16: one quest worth 200 points with one slot.  In every step: a balance is
\* 200 for each credit run for the user (200 after the one approval); the
\* quest of a recorded submission is archived; a task_cb whose capacity check
\* finds the quest full goes to its denial and writes no row; and the denial
\* (archive, refresh) writes no row and leaves the quest archived.
C16_Scenario ==
    [][/\ \A u \in DOMAIN users' :
             users'[u] = ScenarioTask[1] * Cardinality({v \in 1..NReview :
                             review'[v].pc = "approved" /\ review'[v].user_id = u})
       /\ \A f \in 1..NIntake :
             intake'[f].pc = "recorded" => tasks'[intake'[f].tid].archived
       /\ \A f \in 1..NIntake :
             (intake[f].pc = "count" /\ intake'[f].pc # "count"
                 /\ CountDone(intake[f].tid) >= tasks[intake[f].tid].max_submissions)
             => intake'[f].pc = "full_archive" /\ submissions' = submissions
       /\ \A f \in 1..NIntake :
             (intake[f].pc \in {"full_archive", "full_refresh"} /\ intake'[f] # intake[f])
             => /\ intake'[f].pc \in {"full_refresh", "denied_full"}
                /\ submissions' = submissions
                /\ tasks'[intake[f].tid].archived]_vars

\* C16, its case: u submitted (recorded) and was approved, u holds 200, the
\* quest is archived with its one row, and the attempt of another user was
\* denied at the capacity check.
C16_Witness ==
    \E f, g \in 1..NIntake, v \in 1..NReview :
        /\ intake[f].pc = "recorded"
        /\ review[v].pc = "approved" /\ review[v].user_id = intake[f].user
        /\ users[intake[f].user] = 200
        /\ tasks[intake[f].tid].archived
        /\ Cardinality(submissions) = 1
        /\ intake[g].pc = "denied_full"
        /\ intake[g].tid = intake[f].tid
        /\ intake[g].user # intake[f].user

\* ------------------------------------------------------------ pure helpers
\* The places of a list whose milestone lies in (old, new].
CrossedAt(old, new, ms) == {i \in DOMAIN ms : old < ms[i] /\ ms[i] <= new}

\* C17: next_milestones_reached(old, new, ms) returns exactly the milestones m
\* of ms with old < m <= new, in the order of ms: as many as ms has such
\* places, its k-th element being the milestone at the k-th such place; so
\* (480, 1600, MILESTONES) gives <<500, 1000, 1500>>, (500, 500, ...) gives
\* <<>>, and new <= old gives <<>>.
C17_MilestonesCrossed ==
    (call.fn = "next_milestones_reached" /\ call.returned) =>
        LET old == call.args[1]
            new == call.args[2]
            ms == call.args[3]
            at == CrossedAt(old, new, ms)
        IN /\ Len(call.out) = Cardinality(at)
           /\ \A i \in at : call.out[Cardinality({j \in at : j <= i})] = ms[i]
           /\ (old = 480 /\ new = 1600 /\ ms = MILESTONES) => call.out = <<500, 1000, 1500>>
           /\ (old = 500 /\ new = 500) => call.out = <<>>
           /\ new <= old => call.out = <<>>

\* C17, its case: the call (480, 1600, MILESTONES) has returned <<500, 1000, 1500>>.
C17_Witness ==
    /\ call.fn = "next_milestones_reached"
    /\ call.returned
    /\ call.args = <<480, 1600, MILESTONES>>
    /\ call.out = <<500, 1000, 1500>>

\* The five tiers, lowest first, and the threshold of each.
Tiers == <<"Newbie", "Explorer", "Adventurer", "Pro", "Master">>

Thresholds == <<0, 500, 1000, 1500, 2000>>

\* The place of a tier label among the tiers.
TierOf(label) == CHOOSE i \in DOMAIN Tiers : Tiers[i] = label

\* C18: get_rank returns one of the five tiers; for points >= 0 it is the
\* tier of the highest threshold <= points (a threshold value itself is in the
\* higher tier); and for p1 <= p2 the tier of p1 is not above the tier of p2.
C18_RankMonotonic ==
    (call.fn = "get_rank" /\ call.returned) =>
        LET p1 == call.args[1]
            p2 == call.args[2]
        IN /\ \A k \in 1..2 : \E i \in DOMAIN Tiers : call.out[k] = Tiers[i]
           /\ p1 >= 0 => /\ Thresholds[TierOf(call.out[1])] <= p1
                         /\ \A i \in DOMAIN Thresholds :
                               Thresholds[i] <= p1 => i <= TierOf(call.out[1])
           /\ p1 <= p2 => TierOf(call.out[1]) <= TierOf(call.out[2])

\* C18, its case: get_rank(499) is Newbie and get_rank(500) is Explorer.
C18_Witness ==
    /\ call.fn = "get_rank"
    /\ call.returned
    /\ call.args = <<499, 500>>
    /\ call.out = <<"Newbie", "Explorer">>

\* ------------------------------------------------------- withdrawal, flights
\* C19: at most one withdraw_cb of a user is in progress: no two withdraw_cb
\* of the same user are both suspended in one of the four waits, where one
\* message of that user would resume both.
C19_SingleFlight ==
    \A w1, w2 \in 1..NWithdraw :
        (w1 # w2 /\ wd[w1].pc \in Collecting /\ wd[w2].pc \in Collecting) =>
            wd[w1].user # wd[w2].user

\* ------------------------------------------------------------ points, frame
\* A row of users is created with 0 points, the other rows staying as they are.
RowCreated ==
    \E u \in Users :
        /\ u \notin DOMAIN users
        /\ DOMAIN users' = DOMAIN users \cup {u}
        /\ users'[u] = 0
        /\ \A o \in DOMAIN users : users'[o] = users[o]

\* The second statement of approve_cb, or the first statement of the withdrawal commit.
CreditOrDebit ==
    \/ \E v \in 1..NReview : review[v].pc = "approve_credit" /\ review'[v].pc = "approved"
    \/ \E w \in 1..NWithdraw : wd[w].pc = "debit" /\ wd'[w].pc = "insert_withdrawal"

\* C20: apart from the creation of a row with 0 points, users.points changes
\* only in the credit of an approval and the debit of a withdrawal commit:
\* every other step of every handler (intake, reject, select, boards, ban,
\* quest add, edit, archive and remove, withdrawal approval, history pager)
\* leaves every user's points as they were.
C20_PointsFrame == [][users' = users \/ RowCreated \/ CreditOrDebit]_vars

\* C20, its case: a submission has been rejected and a user banned, and the
\* balances are those the session started with.
C20_Witness ==
    /\ \E v \in 1..NReview : review[v].pc = "rejected"
    /\ banned # {}
    /\ users = ("u1" :> 1000)

\* ------------------------------------------------------------------ startup
\* C21: when the store connection is not established at startup (DATABASE_URL
\* is not set, or create_pool has failed), no command or interaction handler
\* runs.
C21_NoHandlerWithoutStore ==
    (startup.DATABASE_URL = "unset" \/ startup.create_pool_failed) => startup.handled = {}

\* ------------------------------------------------------------ review, select
\* The step of PendingSelect.callback in the review view v.
Selects(v) == review[v].pc = "idle" /\ review'[v].pc # "idle"

\* C22: PendingSelect.callback opens a review view only for a submission that
\* is in the store with status pending when it is read, the view holding that
\* row; for a submission that is approved, rejected or gone it denies; either
\* way it changes nothing in the store and nothing in the other views.
C22_SelectOnlyPending ==
    [][\A v \in 1..NReview : Selects(v) =>
          /\ review'[v].pc \in {"open", "select_denied"}
          /\ review'[v].pc = "open" <=>
                 \E r \in submissions : /\ r.id = review'[v].sid
                                        /\ r.status = "pending"
                                        /\ r.user_id = review'[v].user_id
                                        /\ r.task_id = review'[v].task_id
          /\ UNCHANGED <<vLedger, menu>>
          /\ \A o \in 1..NReview : o # v => review'[o] = review[o]]_vars

\* C22, its case: a submission approved in one review view has been selected
\* again in another, which denied.
C22_Witness ==
    \E v, o \in 1..NReview :
        /\ review[v].pc = "approved"
        /\ review[o].pc = "select_denied"
        /\ review[o].sid = review[v].sid
        /\ \E r \in submissions : r.id = review[o].sid /\ r.status = "approved"

\* ------------------------------------------------------- intake, who clicks
\* C23: a click on a quest button by anyone but the member the board answers
\* to is denied in the click's own step, and a click by a banned user is
\* denied when is_banned returns; both leave the store, last_click, the boards
\* and the other task_cb as they were, and no one else is denied this way.
C23_DeniedAtStarted ==
    [][/\ \A f \in 1..NIntake, b \in 1..NBoards, u \in Users, t \in 1..MaxTasks :
              TaskClick(f, b, u, t) =>
                 /\ (u # boards[b].author) <=> (intake'[f].pc = "denied_not_caller")
                 /\ UNCHANGED <<vLedger, last_click, boards, deleted>>
                 /\ \A g \in 1..NIntake : g # f => intake'[g] = intake[g]
       /\ \A f \in 1..NIntake :
              (intake[f].pc = "is_banned" /\ intake'[f] # intake[f]) =>
                 /\ (intake[f].user \in banned) <=> (intake'[f].pc = "denied_banned")
                 /\ intake[f].user \in banned =>
                        /\ UNCHANGED <<vLedger, last_click, boards, deleted>>
                        /\ \A g \in 1..NIntake : g # f => intake'[g] = intake[g]
       /\ \A f \in 1..NIntake :
              intake'[f].pc \in {"denied_not_caller", "denied_banned"} =>
                  intake[f].pc \in {"idle", "is_banned", intake'[f].pc}]_vars

\* C23, its case: one click was denied for its identity and one for a ban.
C23_Witness ==
    \E f, g \in 1..NIntake :
        /\ intake[f].pc = "denied_not_caller"
        /\ intake[g].pc = "denied_banned"
        /\ intake[g].user \in banned

\* ----------------------------------------------------------- intake, capacity
\* C24: when the capacity check of task_cb reads a count of non-rejected
\* submissions that is >= the max_submissions of the task, the click goes to
\* the denial that archives the task and refreshes the board, and writes no
\* row; otherwise the step leaves the task's archived flag as it was.
C24_CapacityDenies ==
    [][\A f \in 1..NIntake :
          (intake[f].pc = "count" /\ intake'[f] # intake[f]) =>
             /\ UNCHANGED vLedger
             /\ (intake[f].tid \in DOMAIN tasks
                 /\ CountDone(intake[f].tid) >= tasks[intake[f].tid].max_submissions)
                    => intake'[f].pc = "full_archive"]_vars

\* ---------------------------------------------------------- intake, duplicate
\* The rows a task_cb would find for its user and its task.
Existing(f) == {r \in submissions : r.user_id = intake[f].user /\ r.task_id = intake[f].tid}

C26_ReviewedAtIffDecided ==
    [][/\ \A n \in submissions' :
              (\A r \in submissions : r.id # n.id) =>
                  n.status = "pending" /\ n.reviewed_at = "NULL"
       /\ \A n \in submissions' :
              (n.reviewed_at # "NULL") <=> (n.status \in {"approved", "rejected"})]_vars

\* C26, its case: a row was approved and another rejected, each with its
\* reviewed_at set.
C26_Witness ==
    \E a, r \in submissions :
        /\ a.status = "approved" /\ a.reviewed_at # "NULL"
        /\ r.status = "rejected" /\ r.reviewed_at # "NULL"

\* -------------------------------------------------- intake, archived quests
\* C27: no row of submissions is written for a task that is archived when the
\* row is written.
C27_NoRowForArchived ==
    [][\A n \in submissions' :
          (\A r \in submissions : r.id # n.id) =>
              (n.task_id \in DOMAIN tasks /\ ~tasks[n.task_id].archived)]_vars

\* ------------------------------------------------------ withdraw, eligibility
\* C28: a withdraw_cb that reads a balance below 1000 is denied in that step,
\* which writes nothing; it never waits for an answer, debits or inserts; and
\* a withdraw_cb that reads 1000 or more is asked for the bank name.
C28_BelowMinimumDenied ==
    [][\A w \in 1..NWithdraw :
          /\ (wd[w].pc = "get_points" /\ wd'[w] # wd[w]) =>
                /\ (get_user_points(wd[w].user) < MinWithdraw)
                       <=> (wd'[w].pc = "denied_balance")
                /\ (get_user_points(wd[w].user) >= MinWithdraw)
                       <=> (wd'[w].pc = "bank_name")
                /\ UNCHANGED vLedger
          /\ wd[w].pc = "denied_balance" => wd'[w] = wd[w]
          /\ wd'[w].pc = "denied_balance" => wd'[w].points_to_withdraw = 0]_vars

\* C28, its case: a user without 1000 points clicked Withdraw Points and was
\* denied; no withdrawal of that user is in the store.
C28_Witness ==
    \E w \in 1..NWithdraw :
        /\ wd[w].pc = "denied_balance"
        /\ get_user_points(wd[w].user) < MinWithdraw
        /\ \A r \in withdrawals : r.user_id # wd[w].user

\* -------------------------------------------------------------------- boards
\* A task with a free slot: not archived, fewer non-rejected submissions than
\* max_submissions.
OpenTask(t) == ~tasks[t].archived /\ CountDone(t) < tasks[t].max_submissions

\* The board message b is rendered or refreshed in this step.
Rendered(b) ==
    \/ ~boards[b].shown /\ boards'[b].shown
    \/ \E f \in 1..NIntake : /\ intake[f].pc \in {"refresh", "full_refresh"}
                             /\ intake'[f].pc \in {"recorded", "denied_full"}
                             /\ intake[f].board = b

\* The non-archived tasks a render reads: the first 10 by id.
ReadByRender == {t \in DOMAIN tasks :
                    /\ ~tasks[t].archived
                    /\ Cardinality({o \in DOMAIN tasks : ~tasks[o].archived /\ o < t}) < 10}

\* C29: a render or refresh of a board shows at most 10 tasks, each of them
\* not archived and with done < max_submissions when it is counted; and
\* every task it reads with done >= max_submissions is archived by it and is
\* not shown.
C29_BoardShowsOpenTasks ==
    [][\A b \in 1..NBoards : Rendered(b) =>
          /\ Cardinality(DOMAIN boards'[b].buttons) <= 10
          /\ \A t \in DOMAIN boards'[b].buttons :
                 t \in DOMAIN tasks /\ OpenTask(t) /\ ~tasks'[t].archived
          /\ \A t \in ReadByRender :
                 CountDone(t) >= tasks[t].max_submissions =>
                     tasks'[t].archived /\ t \notin DOMAIN boards'[b].buttons]_vars

\* C29, its case: a board shows 10 tasks while a further open task is in the
\* store.
C29_Witness ==
    \E b \in 1..NBoards :
        /\ boards[b].shown
        /\ Cardinality(DOMAIN boards[b].buttons) = 10
        /\ \E t \in DOMAIN tasks : OpenTask(t) /\ t \notin DOMAIN boards[b].buttons

\* The task_cb f refreshes its board in this step.
Refreshes(f) ==
    /\ intake[f].pc \in {"refresh", "full_refresh"}
    /\ intake'[f].pc \in {"recorded", "denied_full"}

\* C30: after a refresh the board is in the "no active quests" state if and
\* only if no open task (not archived, done < max_submissions) remains in the
\* store.
C30_NoActiveIffNoneOpen ==
    [][\A f \in 1..NIntake : Refreshes(f) =>
          ((boards'[intake[f].board].buttons = <<>>)
              <=> ~(\E t \in DOMAIN tasks' : OpenTask(t)'))]_vars

\* C31: refresh is idempotent: in the state a refresh of a board leaves, a
\* second refresh of the same board, with no other change of the store in
\* between, archives nothing more and shows the same tasks.
C31_RefreshIdempotent ==
    [][\A f \in 1..NIntake : Refreshes(f) =>
          /\ Archive(FullRows)' = tasks'
          /\ Buttons' = boards'[intake[f].board].buttons]_vars

\* ------------------------------------------------------------- history pager
\* The decided (approved or rejected) submissions of member.
Reviewed(member) ==
    {s.id : s \in {r \in submissions : r.user_id = member
                                       /\ r.status \in {"approved", "rejected"}}}

\* A page of the history of member is built in this step.
BuildsPage(member) == history'[member].open /\ history'[member] # history[member]

\* C32: whenever a page of the history pager is built, totalPages is
\* ceil(totalReviewed / 10), the page index is within 0 .. totalPages - 1
\* (the navigation controls being enabled only inside that range), and the
\* page holds the reviewed submissions at offsets 10p .. 10p+9, most recent
\* first.
C32_HistoryPager ==
    [][\A m \in Users : BuildsPage(m) =>
          LET n == Cardinality(Reviewed(m))
              tp == total_pages(history[m].total_completed_tasks)
              p == history'[m].page
              rows == history'[m].rows
          IN /\ 10 * (tp - 1) < n /\ n <= 10 * tp
             /\ p \in 0..(tp - 1)
             /\ DOMAIN rows = 1..(IF n - 10 * p < 10 THEN n - 10 * p ELSE 10)
             /\ \A k \in DOMAIN rows :
                    /\ rows[k] \in Reviewed(m)
                    /\ Cardinality({i \in Reviewed(m) : i > rows[k]}) = 10 * p + k - 1]_vars

\* ------------------------------------------------------------------ removal
\* remove_task_button of task t ends in this step.
RemovalEnds(t) == t \in removing /\ t \notin removing'

\* C33: the removal of a task is all-or-nothing for its submissions: when it
\* ends the task and all of its submission rows are gone, no submission row
\* references a missing task, and a submission row disappears only in a
\* removal of its task.
C33_RemovalAllOrNothing ==
    [][/\ \A t \in DOMAIN tasks : RemovalEnds(t) =>
              /\ t \notin DOMAIN tasks'
              /\ \A s \in submissions' : s.task_id # t
       /\ \A s \in submissions' : s.task_id \in DOMAIN tasks'
       /\ \A s \in submissions :
              (\A r \in submissions' : r.id # s.id) =>
                  s.task_id \notin removing /\ s.task_id \in removing']_vars

\* --------------------------------------------------------------- termination
\* The ends of task_cb: recorded, or one of its denials.
IntakeEnds == {"recorded", "denied_not_caller", "denied_banned", "denied_cooldown",
               "denied_full", "denied_duplicate", "denied_timeout", "denied_error"}

\* The ends of withdraw_cb: the request is committed and posted, or the
\* negotiation is aborted.
WithdrawEnds == {"posted", "denied_balance", "timed_out", "invalid_number",
                 "below_minimum", "over_balance", "insert_failed"}

\* C34: every submission intake and every withdrawal negotiation that was
\* started eventually ends, whether or not the user sends another message.
C34_FlowsTerminate ==
    /\ \A f \in 1..NIntake : (intake[f].pc # "idle") ~> (intake[f].pc \in IntakeEnds)
    /\ \A w \in 1..NWithdraw : (wd[w].pc # "idle") ~> (wd[w].pc \in WithdrawEnds)

\* C34, its case: a task_cb and a withdraw_cb ended by the timeout of their
\* wait, no message having come.
C34_Witness ==
    \E f \in 1..NIntake, w \in 1..NWithdraw :
        /\ intake[f].pc = "denied_timeout"
        /\ wd[w].pc = "timed_out"
        /\ wd[w].points_to_withdraw = 0

\* ------------------------------------------------------------ board binding
\* C35: after a refresh the quest buttons of a board stay bound to the
\* identity that opened the board: whoever the buttons answered to before the
\* refresh, they answer to after it.
C35_RefreshKeepsBinding ==
    [][\A f \in 1..NIntake :
          (Refreshes(f) /\ boards'[intake[f].board].buttons # <<>>) =>
              boards'[intake[f].board].author = boards[intake[f].board].author]_vars

\* ---------------------------------------------------------------- archived
\* C36: the archived flag of a task is monotonic: once true, no operation
\* sets it back to false.
C36_ArchivedMonotonic ==
    [][\A t \in DOMAIN tasks :
          (tasks[t].archived /\ t \in DOMAIN tasks') => tasks'[t].archived]_vars

\* C36, its case: an archived task whose count of non-rejected submissions is
\* below max_submissions again, after a rejection.
C36_Witness ==
    \E t \in DOMAIN tasks :
        /\ tasks[t].archived
        /\ \E s \in submissions : s.task_id = t /\ s.status = "rejected"
        /\ CountDone(t) < tasks[t].max_submissions

\* ------------------------------------------------------------ proof messages
\* C37: one proof message is consumed by at most one task_cb: the store never
\* holds more submission rows than proof messages were taken, so a single
\* message that resumes two waiting task_cb of its author yields at most one
\* new row.
C37_OneRowPerMessage == Cardinality(submissions) <= Cardinality(deleted)

\* C37, its case: two task_cb of one user for two different tasks were resumed
\* by one message; one recorded its row, the other ended on the message that
\* was already gone.
C37_Witness ==
    \E f, g \in 1..NIntake :
        /\ intake[f].pc = "recorded"
        /\ intake[g].pc = "denied_error"
        /\ intake[f].user = intake[g].user
        /\ intake[f].tid # intake[g].tid
        /\ Cardinality(deleted) = 1
        /\ Cardinality(submissions) = 1

\* -------------------------------------------------------------- slots left
\* C38: the slots-left number broadcast when a submission is recorded is
\* max_submissions minus the task's count of non-rejected submissions right
\* after the insert, and is never negative.
C38_SlotsLeftIsActual ==
    [][\A f \in 1..NIntake :
          (intake[f].pc = "insert" /\ intake'[f].pc = "refresh") =>
              /\ intake'[f].slots_left =
                     tasks'[intake[f].tid].max_submissions - CountDone(intake[f].tid)'
              /\ intake'[f].slots_left >= 0]_vars

\* ---------------------------------------------------------------- user rows
\* C39: the user of every submission row has a users row from the moment the
\* submission is written, users rows are never deleted, and the credit of an
\* approval therefore updates exactly one existing balance, by the reward.
C39_SubmitterHasUserRow ==
    [][/\ \A s \in submissions' : s.user_id \in DOMAIN users'
       /\ DOMAIN users \subseteq DOMAIN users'
       /\ \A v \in 1..NReview :
              (review[v].pc = "approve_credit" /\ review'[v].pc = "approved") =>
                  /\ review[v].user_id \in DOMAIN users
                  /\ users' = [users EXCEPT ![review[v].user_id] = @ + review[v].task_points]]_vars

\* C39, its case: a user without a users row submitted, and the approval
\* credited the reward to the row ensure_user made.
C39_Witness ==
    \E v \in 1..NReview :
        /\ review[v].pc = "approved"
        /\ review[v].user_id \in DOMAIN users
        /\ users[review[v].user_id] = review[v].task_points
        /\ \E s \in submissions : s.id = review[v].sid /\ s.status = "approved"

\* ------------------------------------------------------------ reward credited
\* C40: the reward an approval credits is the reward of the task as stored
\* at the moment of the approval, also when the task's points were edited
\* after the submission was selected for review.
C40_CreditsStoredReward ==
    [][\A v \in 1..NReview :
          (/\ review[v].pc = "approve_credit"
           /\ review'[v].pc = "approved"
           /\ review[v].user_id \in DOMAIN users
           /\ review[v].task_id \in DOMAIN tasks) =>
              users'[review[v].user_id] - users[review[v].user_id]
                  = tasks[review[v].task_id].points]_vars

====
